---- MODULE Spec2Model ----
(***************************************************************************)
(* Phosphor: the generic ring buffer (package buffer), the OTLP receiver   *)
(* (package receiver) with its event dispatch, and the converter (package  *)
(* models).                                                                *)
(*                                                                         *)
(* Spec         one RingBuffer driven by sequential calls                  *)
(* SpecConc     one RingBuffer shared by goroutines that Push and          *)
(*              goroutines that read, under its sync.RWMutex               *)
(*              (TestConcurrentAccess)                                     *)
(* SpecBatch    the same with a PushBatch goroutine and a Clear goroutine  *)
(* SpecLock     a goroutine per writing method, a reader and a polling     *)
(*              goroutine, every method of the store being called          *)
(* SpecLive     writers, PushBatch, Clear and a reader under fair          *)
(*              scheduling                                                 *)
(* SpecRecv     the OTLP receiver: Export calls of the trace service, one  *)
(*              at a time, OnEvent, and the goroutines emitEvent starts    *)
(* SpecRecvFair SpecRecv with every goroutine and handler scheduled        *)
(* SpecClear    Export calls with ClearAll, GetStats and the store reads   *)
(* SpecIds      two Export calls of the trace service at once: generateID  *)
(* SpecCount    two Export calls of the trace service at once, ClearAll    *)
(* SpecExports  two Export calls of the trace service at once, requests of *)
(*              every shape                                                *)
(* SpecSignals  one Export call of each service at once                    *)
(* SpecEmit     a trace and a logs Export call at once, OnEvent, and the   *)
(*              goroutines emitEvent starts                                *)
(* SpecApi      every method of the buffer, one call at a time, on buffers *)
(*              constructed with a negative, zero or positive capacity    *)
(* SpecStats    Stats read field by field beside Push, PushBatch and Clear *)
(* SpecStart    Start and Stop of the receiver, the port free or taken     *)
(* SpecBridge   the bridge: Startup, the streaming flag, its callback      *)
(* SpecReg      OnEvent calls racing each other and an emitEvent call      *)
(* SpecHook     the frontend hook handling telemetry and clear events      *)
(* SpecConv     the converter applied to resources and log records         *)
(* SpecTotal    the converter applied to inputs with missing parts         *)
(***************************************************************************)
EXTENDS Integers, Sequences, FiniteSets, TLC

\* ------------------------------------------------------------------ bounds
\* largest capacity a buffer is constructed with
MaxCap == 3
\* items pushed in one run (they are numbered 1, 2, ...)
MaxPushes == 6
\* longest list handed to PushBatch
MaxBatch == 4

\* SpecConc: largest capacity of the shared buffer
ConcMaxCap == 3
\* SpecConc: goroutines that call Push, and the Push calls each makes
NumWriters == 2
PushesPerWriter == 1
\* SpecConc: goroutines that read (each reads again and again)
NumReaders == 1
\* SpecBatch: longest list the PushBatch goroutine hands over, and its calls
ConcBatch == 2
BatchCalls == 1

\* the receiver: leaf items received in one run (they are numbered 1, 2, ...)
MaxItems == 2
\* the receiver: Export calls one service can have in progress at once
CallsPerService == 2
\* the receiver: the readings of the clock in one run are 0..MaxClock
MaxClock == 1
\* SpecExports, SpecSignals: the capacity of the stores
ExpCap == 3
\* SpecExports: the leaf items received in one run
ExpItems == 3
\* SpecSignals: the leaf items received in one run
SigItems == 2
\* SpecRecv: callbacks registered with OnEvent
MaxCallbacks == 2
\* SpecRecv: the capacity the receiver is configured with, per signal
RecvCap == 1
\* SpecHook: MAX_BUFFER_SIZE of the frontend hook (1000), scaled down, and
\* the events handled in one run
MaxBufferSize == 2
MaxEvents == 4

\* SpecStart: Start calls in one run
MaxStarts == 3

\* SpecApi: largest capacity asked for, items pushed in one run, longest
\* list handed to PushBatch
ApiCap == 3
ApiPushes == 4
ApiBatch == 2

\* SpecConv: the severity numbers of the log records are
\* -MaxSeverity..MaxSeverity
MaxSeverity == 26
\* SpecConv: the attributes of a resource, at most
MaxAttrs == 2
\* SpecTotal: the data points of a metric, at most
MaxPoints == 1
\* SpecTotal: the timestamps are unsigned integers of TimeBits bits (uint64
\* in the program), the stored ones signed integers of as many bits
TimeBits == 3

\* the zero value of the item type int
Zero == 0
\* capacity NewRingBuffer falls back to
DefaultCapacity == 1000
\* capacity NewOTLPReceiver gives a signal whose configured capacity is 0
DefaultSignalCapacity == 1000

VARIABLES
    rb,        \* the RingBuffer: items, head, tail, count, capacity, full
    hist,      \* history: the items pushed since construction or the last Clear
    nextItem,  \* the number the next pushed item carries
    lastOp,    \* the last call made on rb: its name, argument and result
    held,      \* the slice a caller of GetAll or GetLast got and still holds
    net,       \* receiver: r.listener, r.server, and the port it listens on
    app,       \* the bridge: a.streaming, its callback calls, what it forwarded
    reg,       \* r.callbacksMu, the OnEvent calls and the emitEvent call in progress
    hook,      \* the frontend hook: its three caches, the events it has handled
    mu,        \* rb.mu: the goroutine holding or awaiting the write lock, the readers
    pc,        \* per goroutine: where it is in its current call
    op,        \* per goroutine: the method it is calling
    arg,       \* per goroutine: the argument of that call
    calls,     \* per goroutine: the calls it has completed
    idx,       \* per goroutine: the loop index i of PushBatch / GetAll
    tmp,       \* per goroutine: the value of rb.count loaded by rb.count++
    res,       \* per goroutine: the result its read is about to return
    stores,    \* receiver: r.traces, r.metrics, r.logs
    stats,     \* receiver: r.stats, the received counter per signal
    callbacks, \* receiver: r.callbacks; of each callback, what it does when called
    exp,       \* per service: the Export call in progress, its request and place
    gor,       \* the goroutines emitEvent started that have not run yet
    delivered, \* the <<callback, item>> pairs whose callback has been called
    crashed,   \* the process has ended on an unrecovered panic
    nextEv,    \* the number the next received leaf item carries
    pushed,    \* history: per store, the items pushed since the last Clear
    idCounter, \* the converter's idCounter
    clock,     \* what time.Now().UnixNano() returns
    clr,       \* the ClearAll call in progress: the step it takes next, its effect
    rd         \* the API call (GetStats, GetTraces, ...) in progress, its result

seqVars == <<nextItem, lastOp, held, net, app, reg, hook>>
concVars == <<mu, pc, op, arg, calls, idx, tmp, res>>
dispVars == <<callbacks, gor, delivered, crashed>>
recvVars == <<stores, stats, exp, nextEv, pushed, idCounter, clock, clr, rd, dispVars>>
vars == <<rb, hist, seqVars, concVars, recvVars>>

\* ------------------------------------------------------------- helpers
Min(a, b) == IF a < b THEN a ELSE b

\* the last n elements of sequence s (all of s when n >= Len(s))
LastN(s, n) == SubSeq(s, Len(s) - Min(n, Len(s)) + 1, Len(s))

\* <<a, a+1, ..., a+k-1>>
Numbered(a, k) == [i \in 1..k |-> a + i - 1]

\* the receiver before Start: r.listener and r.server are nil (0). port
\* tells who listens on the configured port: nobody ("free"), this receiver
\* ("self") or another process ("other"). made counts the gRPC servers
\* created, serving is the server that serves, err the result of the last
\* Start, starts the number of Start calls.
NoNet ==
    [listener |-> 0, server |-> 0, port |-> "free", made |-> 0, serving |-> 0,
     err |-> FALSE, starts |-> 0]

\* NewApp(): &App{}; streaming is false. started and early keep whether
\* StartStreaming has been called and the items stored before its first
\* call; running the callback calls that have read the flag and not yet
\* acted on it, ran all callback calls so far, each with the flag it read;
\* forwarded the events handed to runtime.EventsEmit.
NewApp ==
    [streaming |-> FALSE, started |-> FALSE, stopped |-> FALSE, early |-> {},
     running |-> {}, ran |-> {}, forwarded |-> {}]

\* the goroutines that call OnEvent, one call each
Registrars == 1..MaxCallbacks

\* no emitEvent call in progress
NoEmit == [pc |-> "idle", list |-> <<>>, i |-> 0, started |-> <<>>]

\* r.callbacksMu free, no OnEvent call made yet: w is the goroutine holding
\* the write lock, on the place of each OnEvent call, tmp the slice it has
\* loaded, order the history of the callbacks appended
NoReg ==
    [w |-> 0, on |-> [i \in Registrars |-> "idle"],
     tmp |-> [i \in Registrars |-> <<>>], order |-> <<>>, em |-> NoEmit]

\* the hook as useTelemetry makes it: three empty Maps, kept as the lists
\* of their entries in insertion order
NewHook == [trace |-> <<>>, metric |-> <<>>, log |-> <<>>, handled |-> 0]

\* ---------------------------------------------------------- RingBuffer
\* A slice is a view of an array: either of an array of its own, whose
\* elements it carries (elems), or of rb.items (alias), of which it names
\* the slots (idx). No slice held: the empty slice.
NoSlice == [alias |-> FALSE, idx |-> <<>>, elems |-> <<>>, ret |-> <<>>]

\* NewRingBuffer[T](capacity); zero is the zero value of T, which make()
\* fills the slots with
NewRingBufferOf(capacity, zero) ==
    LET cap == IF capacity <= 0 THEN DefaultCapacity ELSE capacity
    IN  [items    |-> [i \in 0..(cap - 1) |-> zero],
         head     |-> 0,
         tail     |-> 0,
         count    |-> 0,
         capacity |-> cap,
         full     |-> FALSE,
         zero     |-> zero]

\* NewRingBuffer[int](capacity)
NewRingBuffer(capacity) == NewRingBufferOf(capacity, Zero)

\* Push without the tail advance on overwrite
PushKeepTail(b, item) ==
    LET w == [b EXCEPT !.items[b.head] = item,
                       !.head = (b.head + 1) % b.capacity]
    IN  IF b.full
        THEN w
        ELSE [w EXCEPT !.count = b.count + 1,
                       !.full = (b.count + 1 = b.capacity)]

\* Push whose full test is count > capacity instead of count == capacity
PushLateFull(b, item) ==
    LET w == [b EXCEPT !.items[b.head] = item,
                       !.head = (b.head + 1) % b.capacity]
    IN  IF b.full
        THEN [w EXCEPT !.tail = (b.tail + 1) % b.capacity]
        ELSE [w EXCEPT !.count = b.count + 1,
                       !.full = (b.count + 1 > b.capacity)]

Push(b, item) ==
    LET w == [b EXCEPT !.items[b.head] = item,
                       !.head = (b.head + 1) % b.capacity]
    IN  IF b.full
        THEN [w EXCEPT !.tail = (b.tail + 1) % b.capacity]
        ELSE [w EXCEPT !.count = b.count + 1,
                       !.full = (b.count + 1 = b.capacity)]

\* the loop body of PushBatch that never sets the full flag
PushBatchItemNoFull(b, item) ==
    LET w == [b EXCEPT !.items[b.head] = item,
                       !.head = (b.head + 1) % b.capacity]
    IN  IF b.full
        THEN [w EXCEPT !.tail = (b.tail + 1) % b.capacity]
        ELSE [w EXCEPT !.count = b.count + 1]

\* one iteration of the loop of PushBatch
PushBatchItem(b, item) ==
    LET w == [b EXCEPT !.items[b.head] = item,
                       !.head = (b.head + 1) % b.capacity]
    IN  IF b.full
        THEN [w EXCEPT !.tail = (b.tail + 1) % b.capacity]
        ELSE [w EXCEPT !.count = b.count + 1,
                       !.full = (b.count + 1 = b.capacity)]

RECURSIVE PushBatchFrom(_, _, _)
PushBatchFrom(b, items, i) ==
    IF i > Len(items) THEN b
    ELSE PushBatchFrom(PushBatchItem(b, items[i]), items, i + 1)

PushBatch(b, items) ==
    IF Len(items) = 0 THEN b ELSE PushBatchFrom(b, items, 1)

\* GetAll that starts at the write cursor instead of the oldest item
GetAllFromHead(b) ==
    IF b.count = 0 THEN <<>>
    ELSE [i \in 1..b.count |-> b.items[(b.head + (i - 1)) % b.capacity]]

GetAll(b) ==
    IF b.count = 0 THEN <<>>
    ELSE [i \in 1..b.count |-> b.items[(b.tail + (i - 1)) % b.capacity]]

\* GetLast that starts n slots after the tail
GetLastFromTail(b, n) ==
    IF b.count = 0 \/ n <= 0 THEN <<>>
    ELSE LET m == IF n > b.count THEN b.count ELSE n
             startIdx == (b.tail + m) % b.capacity
         IN  [i \in 1..m |-> b.items[(startIdx + (i - 1)) % b.capacity]]

GetLast(b, n) ==
    IF b.count = 0 \/ n <= 0 THEN <<>>
    ELSE LET m == IF n > b.count THEN b.count ELSE n
             startIdx == (b.tail + b.count - m) % b.capacity
         IN  [i \in 1..m |-> b.items[(startIdx + (i - 1)) % b.capacity]]

\* GetLatest that reads the slot under the write cursor
GetLatestAtHead(b) ==
    IF b.count = 0 THEN [item |-> b.zero, found |-> FALSE]
    ELSE [item |-> b.items[b.head], found |-> TRUE]

GetLatest(b) ==
    IF b.count = 0 THEN [item |-> b.zero, found |-> FALSE]
    ELSE [item |-> b.items[(b.head - 1 + b.capacity) % b.capacity],
          found |-> TRUE]

RbLen(b) == b.count

Cap(b) == b.capacity

\* Clear that builds the buffer anew, with the default capacity
ClearToDefault(b) == NewRingBufferOf(0, b.zero)

\* Clear that leaves the full flag as it was
ClearKeepFull(b) ==
    [b EXCEPT !.head = 0, !.tail = 0, !.count = 0,
              !.items = [i \in 0..(b.capacity - 1) |-> b.zero]]

Clear(b) ==
    [b EXCEPT !.head = 0, !.tail = 0, !.count = 0, !.full = FALSE,
              !.items = [i \in 0..(b.capacity - 1) |-> b.zero]]

IsFull(b) == b.full

\* ForEach: the loop from its i-th iteration on, given the items fn has
\* been handed so far. fn answers false on the items of stop, true on the
\* others.
RECURSIVE ForEachFrom(_, _, _, _)
ForEachFrom(b, stop, i, visited) ==
    IF i < b.count
    THEN LET item == b.items[(b.tail + i) % b.capacity]
         IN  IF item \in stop
             THEN Append(visited, item)
             ELSE ForEachFrom(b, stop, i + 1, Append(visited, item))
    ELSE visited

\* ForEach that goes on after fn has answered false
ForEachNoBreak(b, stop) == ForEachFrom(b, {}, 0, <<>>)

\* ForEach(fn): the items fn is called on, in the order of the calls
ForEach(b, stop) == ForEachFrom(b, stop, 0, <<>>)

\* the slots GetAll reads, in the order it reads them
GetAllSlots(b) ==
    [i \in 1..b.count |-> (b.tail + (i - 1)) % b.capacity]

\* the slots GetLast(n) reads, in the order it reads them
GetLastSlots(b, n) ==
    IF b.count = 0 \/ n <= 0 THEN <<>>
    ELSE LET m == IF n > b.count THEN b.count ELSE n
         IN  [i \in 1..m |-> (b.tail + b.count - m + (i - 1)) % b.capacity]

\* a result that is a view of rb.items instead of an array of its own
MakeView(b, slots, ret) ==
    [alias |-> TRUE, idx |-> slots, elems |-> <<>>, ret |-> ret]

\* result := make([]T, n); result[i] = rb.items[idx] for each slot read.
\* ret keeps the sequence the call returned.
MakeCopy(b, slots, ret) ==
    [alias |-> FALSE, idx |-> slots,
     elems |-> [i \in 1..Len(slots) |-> b.items[slots[i]]], ret |-> ret]

\* the elements a slice has now, the buffer being b
Elements(sl, b) ==
    IF sl.alias THEN [i \in 1..Len(sl.idx) |-> b.items[sl.idx[i]]]
    ELSE sl.elems

IsEmpty(b) == b.count = 0

\* Usage is count/capacity, kept as the pair <<count, capacity>>
Stats(b) ==
    [count |-> b.count, capacity |-> b.capacity,
     usage |-> <<b.count, b.capacity>>, isFull |-> b.full]

\* ---------------------------------------------- goroutines of SpecConc
None == <<"none", 0>>

Writers == {<<"w", i>> : i \in 1..NumWriters}
Readers == {<<"r", i>> : i \in 1..NumReaders}
Batcher == <<"b", 1>>
Clearer == <<"c", 1>>
\* a goroutine that polls the store: IsFull, IsEmpty and ForEach
Prober == <<"p", 1>>
Procs == Writers \cup Readers \cup {Batcher, Clearer, Prober}

\* the goroutines that make a fixed number of calls, and that number; the
\* readers and the Clear goroutine call again and again
Counted == Writers \cup {Batcher}
Budget(p) == IF p \in Writers THEN PushesPerWriter ELSE BatchCalls
MayCall(p) == p \in Counted => calls[p] < Budget(p)

\* the j-th item of writer i is i*100 + j
WriterItem(p) == p[2] * 100 + calls[p]

\* the list the PushBatch goroutine hands over in its next call
BatchItems(p, k) == [m \in 1..k |-> 1000 + 10 * calls[p] + m]

\* the calls the goroutines make: <<method, n>>, n the length of the list
\* for PushBatch and the count asked for GetLast
ConcCalls ==
    {<<"Push", 0>>, <<"GetAll", 0>>, <<"GetLatest", 0>>, <<"Stats", 0>>,
     <<"Len", 0>>}
    \cup {<<"GetLast", n>> : n \in 1..ConcMaxCap}
BatchCallSet ==
    {<<"Clear", 0>>} \cup {<<"PushBatch", k>> : k \in 1..ConcBatch}
ProbeCalls == {<<"IsFull", 0>>, <<"IsEmpty", 0>>, <<"ForEach", 0>>}

\* the methods each goroutine calls
MethodsOf(p) ==
    IF p \in Writers THEN {"Push"}
    ELSE IF p = Batcher THEN {"PushBatch"}
    ELSE IF p = Clearer THEN {"Clear"}
    ELSE IF p = Prober THEN {"IsFull", "IsEmpty", "ForEach"}
    ELSE {"GetAll", "GetLast", "GetLatest", "Stats", "Len"}

\* the argument goroutine p passes in call c
ArgOf(p, c) ==
    CASE c[1] = "Push" -> WriterItem(p)
      [] c[1] = "PushBatch" -> BatchItems(p, c[2])
      [] OTHER -> c[2]

\* the argument and the result of a goroutine that is in no call: the nil
\* slice for the PushBatch goroutine and for the readers, whose calls
\* return slices
NoArg(p) == IF p = Batcher THEN <<>> ELSE 0
NoRes(p) == IF p \in Readers THEN <<>> ELSE 0

ConcInit ==
    /\ mu = [w |-> None, readers |-> {}]
    /\ pc = [p \in Procs |-> "idle"]
    /\ op = [p \in Procs |-> "none"]
    /\ arg = [p \in Procs |-> NoArg(p)]
    /\ calls = [p \in Procs |-> 0]
    /\ idx = [p \in Procs |-> 0]
    /\ tmp = [p \in Procs |-> 0]
    /\ res = [p \in Procs |-> NoRes(p)]

\* ------------------------------------------------------- the receiver
\* the signal types; each has its store, its counter and its service
\* handler (traceService, metricsService, logsService)
Signals == {"trace", "metric", "log"}

\* the Export calls that can be in progress: gRPC serves the calls of one
\* service concurrently, so each service has CallsPerService call slots
Handlers == {<<s, k>> : s \in Signals, k \in 1..CallsPerService}

\* what a registered callback does when it is called
CallbackKinds == {"returns", "blocks", "panics"}

\* the prefix generateID is called with for each signal type
Prefix(s) ==
    CASE s = "trace" -> "span"
      [] s = "metric" -> "metric"
      [] OTHER -> "log"

\* the zero value of models.Span, models.Metric and models.LogRecord
ZeroItem == [sig |-> "", n |-> 0, id |-> <<"", 0, 0>>]

\* no Export call in the slot, none made yet. Of a call in progress,
\* emitted keeps the number of times it has called emitEvent
IdleExport ==
    [pc |-> "idle", ok |-> FALSE, req |-> <<>>, at |-> <<0, 0, 0>>,
     count |-> 0, ld |-> 0, cur |-> ZeroItem, emitted |-> 0]

\* no Export call in the slot; the last one returned the empty response
\* and a nil error
Returned == [IdleExport EXCEPT !.ok = TRUE]

\* no API call in progress, none made yet. Of a GetStats call, mid keeps
\* for each store read what a ClearAll in progress had done to it by then
IdleRead == [pc |-> "idle", res |-> <<>>, mid |-> <<>>]

\* no ClearAll call in progress. Of a ClearAll call, wiped keeps the stores
\* it has taken items from
IdleClear == [pc |-> "idle", wiped |-> {}]

\* if config.TraceCapacity == 0 { config.TraceCapacity = 1000 }, and the
\* same for the other two
ConfigCapacity(capacity) ==
    IF capacity = 0 THEN DefaultSignalCapacity ELSE capacity

\* NewOTLPReceiver(config), the three capacities of config being capacity
NewOTLPReceiver(capacity) ==
    /\ stores = [s \in Signals |->
                     NewRingBufferOf(ConfigCapacity(capacity), ZeroItem)]
    /\ stats = [s \in Signals |-> 0]
    /\ callbacks = <<>>
    /\ exp = [h \in Handlers |-> IdleExport]
    /\ gor = {}
    /\ delivered = {}
    /\ crashed = FALSE
    /\ nextEv = 1
    /\ pushed = [s \in Signals |-> <<>>]
    /\ idCounter = 0
    /\ clock = 0
    /\ clr = IdleClear
    /\ rd = IdleRead

RecvInit == NewOTLPReceiver(RecvCap)

\* ------------------------------------------------ Spec: sequential calls
NoOp == [op |-> "none", arg |-> 0, res |-> 0]

Init ==
    /\ \E c \in 1..MaxCap : rb = NewRingBuffer(c)
    /\ hist = <<>>
    /\ nextItem = 1
    /\ held = NoSlice
    /\ net = NoNet
    /\ app = NewApp
    /\ reg = NoReg
    /\ hook = NewHook
    /\ lastOp = NoOp
    /\ ConcInit
    /\ RecvInit

DoPush ==
    /\ nextItem <= MaxPushes
    /\ rb' = Push(rb, nextItem)
    /\ hist' = Append(hist, nextItem)
    /\ nextItem' = nextItem + 1
    /\ lastOp' = [op |-> "Push", arg |-> nextItem, res |-> 0]
    /\ UNCHANGED <<held, net, app, reg, hook, concVars, recvVars>>

DoPushBatch(k) ==
    /\ nextItem + k - 1 <= MaxPushes
    /\ rb' = PushBatch(rb, Numbered(nextItem, k))
    /\ hist' = hist \o Numbered(nextItem, k)
    /\ nextItem' = nextItem + k
    /\ lastOp' = [op |-> "PushBatch", arg |-> Numbered(nextItem, k), res |-> 0]
    /\ UNCHANGED <<held, net, app, reg, hook, concVars, recvVars>>

DoClear ==
    /\ rb' = Clear(rb)
    /\ hist' = <<>>
    /\ lastOp' = [op |-> "Clear", arg |-> 0, res |-> 0]
    /\ UNCHANGED <<nextItem, held, net, app, reg, hook, concVars, recvVars>>

DoGetAll ==
    /\ lastOp' = [op |-> "GetAll", arg |-> 0, res |-> GetAll(rb)]
    /\ UNCHANGED <<rb, hist, nextItem, held, net, app, reg, hook, concVars, recvVars>>

DoGetLast(n) ==
    /\ lastOp' = [op |-> "GetLast", arg |-> n, res |-> GetLast(rb, n)]
    /\ UNCHANGED <<rb, hist, nextItem, held, net, app, reg, hook, concVars, recvVars>>

DoGetLatest ==
    /\ lastOp' = [op |-> "GetLatest", arg |-> 0, res |-> GetLatest(rb)]
    /\ UNCHANGED <<rb, hist, nextItem, held, net, app, reg, hook, concVars, recvVars>>

DoStats ==
    /\ lastOp' = [op |-> "Stats", arg |-> 0, res |-> Stats(rb)]
    /\ UNCHANGED <<rb, hist, nextItem, held, net, app, reg, hook, concVars, recvVars>>

Next ==
    \/ DoPush
    \/ \E k \in 0..MaxBatch : DoPushBatch(k)
    \/ DoClear
    \/ DoGetAll
    \/ \E n \in -1..(MaxCap + 1) : DoGetLast(n)
    \/ DoGetLatest
    \/ DoStats

Spec == Init /\ [][Next]_vars

\* ------------------- SpecApi: every method, a buffer of every capacity
\* NewRingBuffer(c) and NewOTLPReceiver(config) with the three capacities
\* of config c, for a c that is negative, zero or positive; afterwards the
\* methods of rb one after the other. A caller of GetAll or GetLast keeps
\* the slice it got.
CapacityInputs == -1..ApiCap

FnInputs == {stop \in SUBSET (1..ApiPushes) : Cardinality(stop) <= 2}

InitApi ==
    /\ \E c \in CapacityInputs :
           /\ rb = NewRingBuffer(c)
           /\ lastOp = [op |-> "NewRingBuffer", arg |-> c, res |-> 0]
           /\ NewOTLPReceiver(c)
    /\ hist = <<>>
    /\ nextItem = 1
    /\ held = NoSlice
    /\ net = NoNet
    /\ app = NewApp
    /\ reg = NoReg
    /\ hook = NewHook
    /\ ConcInit

ApiPush ==
    /\ nextItem <= ApiPushes
    /\ DoPush

ApiPushBatch(k) ==
    /\ nextItem + k - 1 <= ApiPushes
    /\ DoPushBatch(k)

KeepGetAll ==
    /\ lastOp' = [op |-> "GetAll", arg |-> 0, res |-> GetAll(rb)]
    /\ held' = MakeCopy(rb, GetAllSlots(rb), GetAll(rb))
    /\ UNCHANGED <<rb, hist, nextItem, net, app, reg, hook, concVars, recvVars>>

KeepGetLast(n) ==
    /\ lastOp' = [op |-> "GetLast", arg |-> n, res |-> GetLast(rb, n)]
    /\ held' = MakeCopy(rb, GetLastSlots(rb, n), GetLast(rb, n))
    /\ UNCHANGED <<rb, hist, nextItem, net, app, reg, hook, concVars, recvVars>>

DoLen ==
    /\ lastOp' = [op |-> "Len", arg |-> 0, res |-> RbLen(rb)]
    /\ UNCHANGED <<rb, hist, nextItem, held, net, app, reg, hook, concVars, recvVars>>

DoCap ==
    /\ lastOp' = [op |-> "Cap", arg |-> 0, res |-> Cap(rb)]
    /\ UNCHANGED <<rb, hist, nextItem, held, net, app, reg, hook, concVars, recvVars>>

DoIsFull ==
    /\ lastOp' = [op |-> "IsFull", arg |-> 0, res |-> IsFull(rb)]
    /\ UNCHANGED <<rb, hist, nextItem, held, net, app, reg, hook, concVars, recvVars>>

DoIsEmpty ==
    /\ lastOp' = [op |-> "IsEmpty", arg |-> 0, res |-> IsEmpty(rb)]
    /\ UNCHANGED <<rb, hist, nextItem, held, net, app, reg, hook, concVars, recvVars>>

DoForEach(stop) ==
    /\ lastOp' = [op |-> "ForEach", arg |-> stop, res |-> ForEach(rb, stop)]
    /\ UNCHANGED <<rb, hist, nextItem, held, net, app, reg, hook, concVars, recvVars>>

NextApi ==
    \/ ApiPush
    \/ \E k \in 0..ApiBatch : ApiPushBatch(k)
    \/ DoClear
    \/ KeepGetAll
    \/ \E n \in -1..(ApiCap + 1) : KeepGetLast(n)
    \/ DoGetLatest
    \/ DoLen
    \/ DoCap
    \/ DoIsFull
    \/ DoIsEmpty
    \/ \E stop \in FnInputs : DoForEach(stop)
    \/ DoStats

SpecApi == InitApi /\ [][NextApi]_vars

\* ------------------------------------- SpecConc: calls under rb.mu
\* Clear under mu.RLock() instead of mu.Lock()
LockKindClearShared(o) ==
    IF o \in {"Push", "PushBatch"} THEN "exclusive" ELSE "shared"

\* Push under mu.RLock() instead of mu.Lock()
LockKindPushShared(o) ==
    IF o \in {"PushBatch", "Clear"} THEN "exclusive" ELSE "shared"

\* PushBatch under mu.RLock() instead of mu.Lock()
LockKindBatchShared(o) ==
    IF o \in {"Push", "Clear"} THEN "exclusive" ELSE "shared"

\* the lock a method takes: mu.Lock() or mu.RLock()
LockKind(o) ==
    IF o \in {"Push", "PushBatch", "Clear"} THEN "exclusive" ELSE "shared"

\* where a method's critical section starts
FirstStep(o) ==
    CASE o \in {"Push", "PushBatch"} -> "push_write"
      [] o = "Clear" -> "clear"
      [] o = "GetAll" -> "getall_count"
      [] o = "ForEach" -> "foreach"
      [] OTHER -> "read"

InitConc ==
    /\ \E c \in 1..ConcMaxCap : rb = NewRingBuffer(c)
    /\ hist = <<>>
    /\ nextItem = 1
    /\ held = NoSlice
    /\ net = NoNet
    /\ app = NewApp
    /\ reg = NoReg
    /\ hook = NewHook
    /\ lastOp = NoOp
    /\ ConcInit
    /\ RecvInit

\* mu.Lock(), first half: take the writer slot; later Lock and RLock calls wait
LockBegin(p, c) ==
    /\ pc[p] = "idle"
    /\ MayCall(p)
    /\ c[1] \in MethodsOf(p)
    /\ LockKind(c[1]) = "exclusive"
    /\ mu.w = None
    /\ mu' = [mu EXCEPT !.w = p]
    /\ pc' = [pc EXCEPT ![p] = "lock_wait"]
    /\ op' = [op EXCEPT ![p] = c[1]]
    /\ arg' = [arg EXCEPT ![p] = ArgOf(p, c)]
    /\ UNCHANGED <<rb, hist, seqVars, recvVars, calls, idx, tmp, res>>

\* mu.Lock(), second half: enter once the active readers have left
LockEnter(p) ==
    /\ pc[p] = "lock_wait"
    /\ mu.readers = {}
    /\ pc' = [pc EXCEPT ![p] = FirstStep(op[p])]
    /\ UNCHANGED <<rb, hist, seqVars, recvVars, mu, op, arg, calls, idx, tmp, res>>

\* mu.RLock(): enter unless a writer holds or awaits the lock
RLock(p, c) ==
    /\ pc[p] = "idle"
    /\ MayCall(p)
    /\ c[1] \in MethodsOf(p)
    /\ LockKind(c[1]) = "shared"
    /\ mu.w = None
    /\ mu' = [mu EXCEPT !.readers = @ \cup {p}]
    /\ pc' = [pc EXCEPT ![p] = FirstStep(c[1])]
    /\ op' = [op EXCEPT ![p] = c[1]]
    /\ arg' = [arg EXCEPT ![p] = ArgOf(p, c)]
    /\ UNCHANGED <<rb, hist, seqVars, recvVars, calls, idx, tmp, res>>

\* PushBatch of an empty list returns before it locks
PushBatchEmpty(p) ==
    /\ p = Batcher
    /\ pc[p] = "idle"
    /\ MayCall(p)
    /\ calls' = [calls EXCEPT ![p] = @ + 1]
    /\ UNCHANGED <<rb, hist, seqVars, recvVars, mu, pc, op, arg, idx, tmp, res>>

\* the item the goroutine is inserting
CurItem(p) == IF op[p] = "PushBatch" THEN arg[p][idx[p] + 1] ELSE arg[p]

\* where a goroutine goes once one item is in: the next item of its batch,
\* or the end of the critical section
AfterItem(p) ==
    IF op[p] = "PushBatch" /\ idx[p] + 1 < Len(arg[p])
    THEN "push_write" ELSE "unlock"

\* rb.items[rb.head] = item; rb.head = (rb.head + 1) % rb.capacity
PushWrite(p) ==
    /\ pc[p] = "push_write"
    /\ rb' = [rb EXCEPT !.items[rb.head] = CurItem(p),
                        !.head = (rb.head + 1) % rb.capacity]
    /\ pc' = [pc EXCEPT ![p] = "push_test"]
    /\ UNCHANGED <<hist, seqVars, recvVars, mu, op, arg, calls, idx, tmp, res>>

\* if rb.full { rb.tail = ... } else { load rb.count for rb.count++ }
PushTest(p) ==
    /\ pc[p] = "push_test"
    /\ IF rb.full
       THEN /\ rb' = [rb EXCEPT !.tail = (rb.tail + 1) % rb.capacity]
            /\ pc' = [pc EXCEPT ![p] = AfterItem(p)]
            /\ idx' = [idx EXCEPT ![p] = @ + 1]
            /\ UNCHANGED tmp
       ELSE /\ tmp' = [tmp EXCEPT ![p] = rb.count]
            /\ pc' = [pc EXCEPT ![p] = "push_store"]
            /\ UNCHANGED <<rb, idx>>
    /\ UNCHANGED <<hist, seqVars, recvVars, mu, op, arg, calls, res>>

\* store rb.count; if rb.count == rb.capacity { rb.full = true }
PushStore(p) ==
    /\ pc[p] = "push_store"
    /\ rb' = [rb EXCEPT !.count = tmp[p] + 1,
                        !.full = IF tmp[p] + 1 = rb.capacity THEN TRUE ELSE @]
    /\ pc' = [pc EXCEPT ![p] = AfterItem(p)]
    /\ idx' = [idx EXCEPT ![p] = @ + 1]
    /\ UNCHANGED <<hist, seqVars, recvVars, mu, op, arg, calls, tmp, res>>

\* the body of Clear
ClearBody(p) ==
    /\ pc[p] = "clear"
    /\ rb' = Clear(rb)
    /\ pc' = [pc EXCEPT ![p] = "unlock"]
    /\ UNCHANGED <<hist, seqVars, recvVars, mu, op, arg, calls, idx, tmp, res>>

\* GetAll: if rb.count == 0 return []T{}; result := make([]T, rb.count)
GetAllCount(p) ==
    /\ pc[p] = "getall_count"
    /\ pc' = [pc EXCEPT ![p] = IF rb.count = 0 THEN "unlock" ELSE "getall_copy"]
    /\ res' = [res EXCEPT ![p] = <<>>]
    /\ UNCHANGED <<rb, hist, seqVars, recvVars, mu, op, arg, calls, idx, tmp>>

\* GetAll: one iteration of the copy loop
GetAllCopy(p) ==
    /\ pc[p] = "getall_copy"
    /\ IF idx[p] < rb.count
       THEN /\ res' = [res EXCEPT ![p] =
                          Append(@, rb.items[(rb.tail + idx[p]) % rb.capacity])]
            /\ idx' = [idx EXCEPT ![p] = @ + 1]
            /\ UNCHANGED pc
       ELSE /\ pc' = [pc EXCEPT ![p] = "unlock"]
            /\ UNCHANGED <<res, idx>>
    /\ UNCHANGED <<rb, hist, seqVars, recvVars, mu, op, arg, calls, tmp>>

\* what a read other than GetAll returns from buffer b
ReadOf(o, a, b) ==
    CASE o = "GetLast" -> GetLast(b, a)
      [] o = "GetLatest" -> GetLatest(b)
      [] o = "Stats" -> Stats(b)
      [] o = "Len" -> RbLen(b)
      [] o = "IsFull" -> IsFull(b)
      [] o = "IsEmpty" -> IsEmpty(b)
      [] OTHER -> GetAll(b)

\* the body of GetLast, GetLatest, Stats, Len, IsFull and IsEmpty
ReadBody(p) ==
    /\ pc[p] = "read"
    /\ pc' = [pc EXCEPT ![p] = "unlock"]
    /\ res' = [res EXCEPT ![p] = ReadOf(op[p], arg[p], rb)]
    /\ UNCHANGED <<rb, hist, seqVars, recvVars, mu, op, arg, calls, idx, tmp>>

\* ForEach: one iteration of the loop. fn is handed the item and answers
\* more; the loop ends when fn answers false or the items are through.
ForEachStep(p, more) ==
    /\ pc[p] = "foreach"
    /\ IF idx[p] < rb.count
       THEN /\ res' = [res EXCEPT ![p] =
                          (IF idx[p] = 0 THEN <<>> ELSE @)
                          \o <<rb.items[(rb.tail + idx[p]) % rb.capacity]>>]
            /\ idx' = [idx EXCEPT ![p] = @ + 1]
            /\ pc' = [pc EXCEPT ![p] = IF more THEN "foreach" ELSE "unlock"]
       ELSE /\ pc' = [pc EXCEPT ![p] = "unlock"]
            /\ UNCHANGED <<res, idx>>
    /\ UNCHANGED <<rb, hist, seqVars, recvVars, mu, op, arg, calls, tmp>>

\* a read that returns without mu.RUnlock()
ReleasedReadKept(p) ==
    IF LockKind(op[p]) = "exclusive" THEN [mu EXCEPT !.w = None] ELSE mu

\* the lock once the goroutine has run its deferred Unlock() or RUnlock()
Released(p) ==
    IF LockKind(op[p]) = "exclusive"
    THEN [mu EXCEPT !.w = None]
    ELSE [mu EXCEPT !.readers = @ \ {p}]

\* the deferred mu.Unlock() / mu.RUnlock(): the call returns and its locals
\* end. The history takes the call's items here, all at once.
Unlock(p) ==
    /\ pc[p] = "unlock"
    /\ mu' = Released(p)
    /\ hist' = CASE op[p] = "Push" -> Append(hist, arg[p])
                 [] op[p] = "PushBatch" -> hist \o arg[p]
                 [] op[p] = "Clear" -> <<>>
                 [] OTHER -> hist
    /\ pc' = [pc EXCEPT ![p] = "idle"]
    /\ calls' = [calls EXCEPT ![p] = IF p \in Counted THEN @ + 1 ELSE @]
    /\ op' = [op EXCEPT ![p] = "none"]
    /\ arg' = [arg EXCEPT ![p] = NoArg(p)]
    /\ idx' = [idx EXCEPT ![p] = 0]
    /\ tmp' = [tmp EXCEPT ![p] = 0]
    /\ res' = [res EXCEPT ![p] = NoRes(p)]
    /\ UNCHANGED <<rb, seqVars, recvVars>>

NextConc ==
    \/ \E p \in Procs, c \in ConcCalls : LockBegin(p, c)
    \/ \E p \in Procs : LockEnter(p)
    \/ \E p \in Procs, c \in ConcCalls : RLock(p, c)
    \/ \E p \in Procs : PushWrite(p)
    \/ \E p \in Procs : PushTest(p)
    \/ \E p \in Procs : PushStore(p)
    \/ \E p \in Procs : GetAllCount(p)
    \/ \E p \in Procs : GetAllCopy(p)
    \/ \E p \in Procs : ReadBody(p)
    \/ \E p \in Procs : Unlock(p)

SpecConc == InitConc /\ [][NextConc]_vars

\* SpecBatch: one Push goroutine, the PushBatch goroutine, the Clear
\* goroutine and the readers
BatchProcs == {<<"w", 1>>, Batcher, Clearer} \cup Readers

NextBatch ==
    \/ \E p \in BatchProcs, c \in ConcCalls \cup BatchCallSet : LockBegin(p, c)
    \/ \E p \in BatchProcs : LockEnter(p)
    \/ \E p \in BatchProcs, c \in ConcCalls \cup BatchCallSet : RLock(p, c)
    \/ \E p \in BatchProcs : PushBatchEmpty(p)
    \/ \E p \in BatchProcs : PushWrite(p)
    \/ \E p \in BatchProcs : PushTest(p)
    \/ \E p \in BatchProcs : PushStore(p)
    \/ \E p \in BatchProcs : ClearBody(p)
    \/ \E p \in BatchProcs : GetAllCount(p)
    \/ \E p \in BatchProcs : GetAllCopy(p)
    \/ \E p \in BatchProcs : ReadBody(p)
    \/ \E p \in BatchProcs : Unlock(p)

SpecBatch == InitConc /\ [][NextBatch]_vars

\* SpecLock: a goroutine for each writing method, a reader and the polling
\* goroutine, every method of the store being called
LockProcs == {<<"w", 1>>, Batcher, Clearer, <<"r", 1>>, Prober}
LockCalls == ConcCalls \cup BatchCallSet \cup ProbeCalls

NextLock ==
    \/ \E p \in LockProcs, c \in LockCalls : LockBegin(p, c)
    \/ \E p \in LockProcs : LockEnter(p)
    \/ \E p \in LockProcs, c \in LockCalls : RLock(p, c)
    \/ \E p \in LockProcs : PushBatchEmpty(p)
    \/ \E p \in LockProcs : PushWrite(p)
    \/ \E p \in LockProcs : PushTest(p)
    \/ \E p \in LockProcs : PushStore(p)
    \/ \E p \in LockProcs : ClearBody(p)
    \/ \E p \in LockProcs : GetAllCount(p)
    \/ \E p \in LockProcs : GetAllCopy(p)
    \/ \E p \in LockProcs : ReadBody(p)
    \/ \E p \in LockProcs, more \in BOOLEAN : ForEachStep(p, more)
    \/ \E p \in LockProcs : Unlock(p)

SpecLock == InitConc /\ [][NextLock]_vars

\* SpecStats: a Push goroutine, the PushBatch and Clear goroutines and a
\* reader that calls Stats, the fields of the BufferStats literal being
\* read one after the other
StatsProcs == {<<"w", 1>>, Batcher, Clearer, <<"r", 1>>}
StatsCalls ==
    {<<"Push", 0>>, <<"Clear", 0>>, <<"Stats", 0>>}
    \cup {<<"PushBatch", k>> : k \in 1..ConcBatch}

\* Stats: Count: rb.count, Capacity: rb.capacity
StatsCount(p) ==
    /\ pc[p] = "read"
    /\ op[p] = "Stats"
    /\ pc' = [pc EXCEPT ![p] = "stats_usage"]
    /\ res' = [res EXCEPT ![p] =
                   [count |-> rb.count, capacity |-> rb.capacity,
                    usage |-> <<0, 1>>, isFull |-> FALSE]]
    /\ UNCHANGED <<rb, hist, seqVars, recvVars, mu, op, arg, calls, idx, tmp>>

\* Stats: Usage: float64(rb.count) / float64(rb.capacity)
StatsUsage(p) ==
    /\ pc[p] = "stats_usage"
    /\ pc' = [pc EXCEPT ![p] = "stats_full"]
    /\ res' = [res EXCEPT ![p].usage = <<rb.count, rb.capacity>>]
    /\ UNCHANGED <<rb, hist, seqVars, recvVars, mu, op, arg, calls, idx, tmp>>

\* Stats: IsFull: rb.full
StatsFull(p) ==
    /\ pc[p] = "stats_full"
    /\ pc' = [pc EXCEPT ![p] = "unlock"]
    /\ res' = [res EXCEPT ![p].isFull = rb.full]
    /\ UNCHANGED <<rb, hist, seqVars, recvVars, mu, op, arg, calls, idx, tmp>>

NextStats ==
    \/ \E p \in StatsProcs, c \in StatsCalls : LockBegin(p, c)
    \/ \E p \in StatsProcs : LockEnter(p)
    \/ \E p \in StatsProcs, c \in StatsCalls : RLock(p, c)
    \/ \E p \in StatsProcs : PushBatchEmpty(p)
    \/ \E p \in StatsProcs : PushWrite(p)
    \/ \E p \in StatsProcs : PushTest(p)
    \/ \E p \in StatsProcs : PushStore(p)
    \/ \E p \in StatsProcs : ClearBody(p)
    \/ \E p \in StatsProcs : StatsCount(p)
    \/ \E p \in StatsProcs : StatsUsage(p)
    \/ \E p \in StatsProcs : StatsFull(p)
    \/ \E p \in StatsProcs : Unlock(p)

SpecStats == InitConc /\ [][NextStats]_vars

\* SpecLive: two writers, the PushBatch and Clear goroutines and a reader on
\* a store of capacity ConcMaxCap, every goroutine being scheduled again
\* and again
LiveWriters == {<<"w", 1>>, <<"w", 2>>}
LiveProcs == LiveWriters \cup {Batcher, Clearer, <<"r", 1>>}
LiveCalls ==
    {<<"Push", 0>>, <<"PushBatch", ConcBatch>>, <<"Clear", 0>>,
     <<"GetAll", 0>>, <<"GetLast", 1>>}

InitLive == InitConc /\ Cap(rb) = ConcMaxCap

\* the next step of goroutine p, whichever it is
StepOf(p) ==
    \/ \E c \in LiveCalls : LockBegin(p, c)
    \/ LockEnter(p)
    \/ \E c \in LiveCalls : RLock(p, c)
    \/ PushWrite(p)
    \/ PushTest(p)
    \/ PushStore(p)
    \/ ClearBody(p)
    \/ GetAllCount(p)
    \/ GetAllCopy(p)
    \/ ReadBody(p)
    \/ Unlock(p)

NextLive == \E p \in LiveProcs : StepOf(p)

\* The Go scheduler runs every runnable goroutine. A goroutine blocked in
\* Lock() is handed the mutex once it has waited (sync.Mutex starvation
\* mode), and the readers blocked in RLock() are all released by the
\* writer's Unlock() before the next writer gets in (sync.RWMutex), so a
\* goroutine whose lock becomes free again and again does get it.
\* Every step of a goroutine changes its position or its loop index.
LiveFairness == \A p \in LiveProcs : SF_<<pc, idx>>(StepOf(p))

SpecLive == InitLive /\ [][NextLive]_vars /\ LiveFairness

\* ------------------------------------------- the receiver: its operations
bufVars == <<rb, hist, seqVars, concVars>>

InitRecv ==
    /\ rb = NewRingBuffer(RecvCap)
    /\ hist = <<>>
    /\ nextItem = 1
    /\ held = NoSlice
    /\ net = NoNet
    /\ app = NewApp
    /\ reg = NoReg
    /\ hook = NewHook
    /\ lastOp = NoOp
    /\ ConcInit
    /\ RecvInit

\* A request is a list of resource groups, a resource group a list of
\* scopes, a scope a list of leaf items (spans, metrics or log records). A
\* shape gives the number of leaf items of each scope; Req numbers the leaf
\* items of a shape base, base+1, ... What the leaf items, resources and
\* scopes hold is the converter's business (SpecConv).
RECURSIVE SumSeq(_)
SumSeq(q) == IF q = <<>> THEN 0 ELSE Head(q) + SumSeq(Tail(q))

Total(shape) == SumSeq([r \in 1..Len(shape) |-> SumSeq(shape[r])])

Before(shape, r, s) ==
    SumSeq([k \in 1..(r - 1) |-> SumSeq(shape[k])])
        + SumSeq(SubSeq(shape[r], 1, s - 1))

Req(shape, base) ==
    [r \in 1..Len(shape) |->
        [s \in 1..Len(shape[r]) |->
            [i \in 1..shape[r][s] |-> base + Before(shape, r, s) + i - 1]]]

\* the loops of Export: for resource groups, for scopes, for leaf items.
\* Seek gives the place <<r, s, i>> of the leaf item the loops reach next
\* from place <<r, s, i>>, or AtEnd when the loops end.
AtEnd == <<0, 0, 0>>

RECURSIVE Seek(_, _, _, _)
Seek(req, r, s, i) ==
    IF r > Len(req) THEN AtEnd
    ELSE IF s > Len(req[r]) THEN Seek(req, r + 1, 1, 1)
    ELSE IF i > Len(req[r][s]) THEN Seek(req, r, s + 1, 1)
    ELSE <<r, s, i>>

\* a scope's loop that takes the first leaf item only
NextPlaceSkips(req, at) == Seek(req, at[1], at[2] + 1, 1)

\* the place the loops reach after the leaf item at place at
NextPlace(req, at) == Seek(req, at[1], at[2], at[3] + 1)

\* the leaf item at a place
LeafAt(req, at) == req[at[1]][at[2]][at[3]]

\* the domain object ConvertSpan / ConvertMetric / ConvertLogRecord builds
\* from leaf item n of a request of signal s, with the ID generateID made
Converted(s, n, id) == [sig |-> s, n |-> n, id |-> id]

\* models.TelemetryEvent{Type: ..., Span/Metric/Log: &converted}
TelemetryEvent(s, c) == [type |-> s, item |-> c]

\* the numbers of the items store s has been given since its last Clear
PushedItems(s) == {pushed[s][i] : i \in 1..Len(pushed[s])}

\* OnEvent: r.callbacks = append(r.callbacks, callback)
OnEvent(k) ==
    /\ ~crashed
    /\ Len(callbacks) < MaxCallbacks
    /\ callbacks' = Append(callbacks, k)
    /\ UNCHANGED <<bufVars, stores, stats, exp, nextEv, pushed,
                   idCounter, clock, clr, rd, gor, delivered, crashed>>

\* Export with a nil request: an empty response at once
ExportNil(h) ==
    /\ ~crashed
    /\ exp[h].pc = "idle"
    /\ exp' = [exp EXCEPT ![h] = Returned]
    /\ UNCHANGED <<bufVars, stores, stats, nextEv, pushed,
                   idCounter, clock, clr, rd, dispVars>>

\* Export is called in slot h with a request of the given shape; limit is
\* the number of leaf items the run receives in all
ExportBegin(h, shape, limit) ==
    LET req == Req(shape, nextEv)
        at == Seek(req, 1, 1, 1)
    IN  /\ ~crashed
        /\ exp[h].pc = "idle"
        /\ nextEv + Total(shape) - 1 <= limit
        /\ exp' = [exp EXCEPT ![h] =
                      [IdleExport EXCEPT !.pc = IF at = AtEnd THEN "finish" ELSE "load",
                                         !.req = req, !.at = at]]
        /\ nextEv' = nextEv + Total(shape)
        /\ UNCHANGED <<bufVars, stores, stats, pushed,
                       idCounter, clock, clr, rd, dispVars>>

\* the event emitEvent was last called with by h, if any
LastEmitted(h) ==
    IF exp[h].pc \in {"load", "finish"} /\ exp[h].cur # ZeroItem
    THEN {TelemetryEvent(h[1], exp[h].cur)}
    ELSE {}

\* emitEvent calling cb(event) itself: it returns when every callback has
EmitReturnedAfterCallbacks(h) ==
    \A ev \in LastEmitted(h) : \A i \in 1..Len(callbacks) :
        /\ <<i, ev>> \in delivered
        /\ callbacks[i] = "returns"

\* emitEvent has returned to Export: it starts each callback with
\* go cb(event) and waits for none
EmitReturned(h) == TRUE

\* ConvertX -> generateID: idCounter++, the load
IdLoad(h) ==
    /\ ~crashed
    /\ exp[h].pc = "load"
    /\ EmitReturned(h)
    /\ exp' = [exp EXCEPT ![h].pc = "store", ![h].ld = idCounter]
    /\ UNCHANGED <<bufVars, stores, stats, nextEv, pushed,
                   idCounter, clock, clr, rd, dispVars>>

\* generateID: idCounter++, the store (a uint64, far from wrapping here)
IdStore(h) ==
    /\ ~crashed
    /\ exp[h].pc = "store"
    /\ idCounter' = exp[h].ld + 1
    /\ exp' = [exp EXCEPT ![h].pc = "format"]
    /\ UNCHANGED <<bufVars, stores, stats, nextEv, pushed,
                   clock, clr, rd, dispVars>>

\* generateID: fmt.Sprintf("%s-%d-%d", prefix, time.Now().UnixNano(), idCounter),
\* and the rest of ConvertX
IdFormat(h) ==
    LET e == exp[h]
    IN  /\ ~crashed
        /\ e.pc = "format"
        /\ exp' = [exp EXCEPT ![h].pc = "push",
                              ![h].cur = Converted(h[1], LeafAt(e.req, e.at),
                                                   <<Prefix(h[1]), clock, idCounter>>)]
        /\ UNCHANGED <<bufVars, stores, stats, nextEv, pushed,
                       idCounter, clock, clr, rd, dispVars>>

\* an Export that pushes the items of every signal type into r.traces
ExportPushOneStore(h) ==
    LET e == exp[h]
    IN  /\ ~crashed
        /\ e.pc = "push"
        /\ stores' = [stores EXCEPT !["trace"] = Push(@, e.cur)]
        /\ pushed' = [pushed EXCEPT !["trace"] = Append(@, e.cur.n)]
        /\ exp' = [exp EXCEPT ![h].pc = "emit", ![h].count = @ + 1]
        /\ UNCHANGED <<bufVars, stats, nextEv,
                       idCounter, clock, clr, rd, dispVars>>

\* an Export that hands the item to emitEvent without storing it
ExportPushSkipped(h) ==
    LET e == exp[h]
    IN  /\ ~crashed
        /\ e.pc = "push"
        /\ exp' = [exp EXCEPT ![h].pc = "emit", ![h].count = @ + 1]
        /\ UNCHANGED <<bufVars, stores, pushed, stats, nextEv,
                       idCounter, clock, clr, rd, dispVars>>

\* r.store.Push(converted); count++
ExportPush(h) ==
    LET e == exp[h]
    IN  /\ ~crashed
        /\ e.pc = "push"
        /\ stores' = [stores EXCEPT ![h[1]] = Push(@, e.cur)]
        /\ pushed' = [pushed EXCEPT ![h[1]] = Append(@, e.cur.n)]
        /\ exp' = [exp EXCEPT ![h].pc = "emit", ![h].count = @ + 1]
        /\ UNCHANGED <<bufVars, stats, nextEv,
                       idCounter, clock, clr, rd, dispVars>>

\* r.emitEvent(event): one goroutine per callback registered by now; then
\* the loops go on
ExportEmit(h) ==
    LET e == exp[h]
        ev == TelemetryEvent(h[1], e.cur)
        at == NextPlace(e.req, e.at)
    IN  /\ ~crashed
        /\ e.pc = "emit"
        /\ gor' = gor \cup {[cb |-> i, ev |-> ev] : i \in 1..Len(callbacks)}
        /\ exp' = [exp EXCEPT ![h].at = at,
                              ![h].pc = IF at = AtEnd THEN "finish" ELSE "load",
                              ![h].emitted = @ + 1]
        /\ UNCHANGED <<bufVars, stores, stats, nextEv, pushed,
                       idCounter, clock, clr, rd, callbacks, delivered, crashed>>

\* a counter update that counts every call as one item at least
ReceivedAtLeastOne(e) == IF e.count = 0 THEN 1 ELSE e.count

\* what Export adds to the received counter: uint64(count)
Received(e) == e.count

\* r.statsMu.Lock(); r.stats.XReceived += uint64(count); r.statsMu.Unlock();
\* return the response, nil. GetStats holds statsMu.RLock() while it runs.
ExportFinish(h) ==
    LET e == exp[h]
    IN  /\ ~crashed
        /\ e.pc = "finish"
        /\ EmitReturned(h)
        /\ rd.pc = "idle"
        /\ stats' = [stats EXCEPT ![h[1]] = @ + Received(e)]
        /\ exp' = [exp EXCEPT ![h] = Returned]
        /\ UNCHANGED <<bufVars, stores, nextEv, pushed,
                       idCounter, clock, clr, rd, dispVars>>

\* the next step of the Export call h
HandlerStep(h) ==
    \/ IdLoad(h)
    \/ IdStore(h)
    \/ IdFormat(h)
    \/ ExportPush(h)
    \/ ExportEmit(h)
    \/ ExportFinish(h)

\* goroutines that run in the order emitEvent started them
GoRunInOrder(g) ==
    /\ ~crashed
    /\ g \in gor
    /\ \A o \in gor : o.ev.item.n >= g.ev.item.n /\ (o.ev = g.ev => o.cb >= g.cb)
    /\ gor' = gor \ {g}
    /\ delivered' = delivered \cup {<<g.cb, g.ev>>}
    /\ crashed' = (callbacks[g.cb] = "panics")
    /\ UNCHANGED <<bufVars, stores, stats, exp, nextEv, pushed,
                   idCounter, clock, clr, rd, callbacks>>

\* a goroutine started by emitEvent runs cb(event). A callback that returns
\* ends the goroutine; one that blocks keeps it forever; one that panics
\* ends the process: nothing recovers the panic.
GoRun(g) ==
    /\ ~crashed
    /\ g \in gor
    /\ gor' = gor \ {g}
    /\ delivered' = delivered \cup {<<g.cb, g.ev>>}
    /\ crashed' = (callbacks[g.cb] = "panics")
    /\ UNCHANGED <<bufVars, stores, stats, exp, nextEv, pushed,
                   idCounter, clock, clr, rd, callbacks>>

\* every goroutine emitEvent can start
AllGoroutines ==
    {[cb |-> i, ev |-> TelemetryEvent(s, Converted(s, n, <<Prefix(s), t, c>>))] :
        i \in 1..MaxCallbacks, s \in Signals, n \in 1..MaxItems,
        t \in 0..MaxClock, c \in 1..MaxItems}

\* time passes
Tick ==
    /\ ~crashed
    /\ clock < MaxClock
    /\ clock' = clock + 1
    /\ UNCHANGED <<bufVars, stores, stats, exp, nextEv, pushed,
                   idCounter, clr, rd, dispVars>>

\* the store ClearAll clears after store s, or "stats" after the last
AfterStore(s) ==
    CASE s = "trace" -> "metric"
      [] s = "metric" -> "log"
      [] OTHER -> "stats"

\* the stores a ClearAll in progress has cleared so far
ClearedSoFar ==
    CASE clr.pc = "metric" -> {"trace"}
      [] clr.pc = "log" -> {"trace", "metric"}
      [] clr.pc = "stats" -> Signals
      [] OTHER -> {}

\* ClearAll: r.traces.Clear(), r.metrics.Clear(), r.logs.Clear(), one call
\* each, each under its own store's lock
ClearStore(s) ==
    /\ ~crashed
    /\ clr.pc = IF s = "trace" THEN "idle" ELSE s
    /\ stores' = [stores EXCEPT ![s] = Clear(@)]
    /\ pushed' = [pushed EXCEPT ![s] = <<>>]
    /\ clr' = [pc |-> AfterStore(s),
               wiped |-> IF IsEmpty(stores[s]) THEN clr.wiped ELSE clr.wiped \cup {s}]
    /\ UNCHANGED <<bufVars, stats, exp, nextEv,
                   idCounter, clock, rd, dispVars>>

\* ClearAll: r.statsMu.Lock(); r.stats = ReceiverStats{}; r.statsMu.Unlock()
ClearStats ==
    /\ ~crashed
    /\ clr.pc = "stats"
    /\ rd.pc = "idle"
    /\ stats' = [s \in Signals |-> 0]
    /\ clr' = IdleClear
    /\ UNCHANGED <<bufVars, stores, exp, nextEv, pushed,
                   idCounter, clock, rd, dispVars>>

\* GetStats: r.statsMu.RLock()
GetStatsBegin ==
    /\ ~crashed
    /\ rd.pc = "idle"
    /\ rd' = [pc |-> "trace", res |-> <<>>, mid |-> <<>>]
    /\ UNCHANGED <<bufVars, stores, stats, exp, nextEv, pushed,
                   idCounter, clock, clr, dispVars>>

\* GetStats: r.traces.Stats(), r.metrics.Stats(), r.logs.Stats(), one call
\* each; of each the count is kept
GetStatsRead ==
    /\ ~crashed
    /\ rd.pc \in Signals
    /\ rd' = [pc |-> IF rd.pc = "log" THEN "ret" ELSE AfterStore(rd.pc),
              res |-> Append(rd.res, Stats(stores[rd.pc]).count),
              mid |-> Append(rd.mid, IF rd.pc \in clr.wiped THEN "wiped"
                                     ELSE IF rd.pc \in ClearedSoFar THEN "cleared"
                                     ELSE "untouched")]
    /\ UNCHANGED <<bufVars, stores, stats, exp, nextEv, pushed,
                   idCounter, clock, clr, dispVars>>

\* GetStats: return models.TelemetryStats{...}; the deferred RUnlock()
GetStatsReturn ==
    /\ ~crashed
    /\ rd.pc = "ret"
    /\ rd' = [rd EXCEPT !.pc = "idle"]
    /\ UNCHANGED <<bufVars, stores, stats, exp, nextEv, pushed,
                   idCounter, clock, clr, dispVars>>

\* GetTraces, GetMetrics, GetLogs: r.store.GetAll(); of each item its number
\* is kept
GetStore(s) ==
    /\ ~crashed
    /\ rd.pc = "idle"
    /\ rd' = [pc |-> "idle",
              res |-> [i \in 1..RbLen(stores[s]) |-> GetAll(stores[s])[i].n],
              mid |-> <<>>]
    /\ UNCHANGED <<bufVars, stores, stats, exp, nextEv, pushed,
                   idCounter, clock, clr, dispVars>>

\* ------------------------- SpecRecv: one Export call at a time and events
\* one scope of k leaf items, or no resource group at all
SimpleShapes == {<<>>} \cup {<<<<k>>>> : k \in 1..MaxItems}

TraceCall == <<"trace", 1>>

NextRecv ==
    \/ \E k \in CallbackKinds : OnEvent(k)
    \/ ExportNil(TraceCall)
    \/ \E shape \in SimpleShapes : ExportBegin(TraceCall, shape, MaxItems)
    \/ IdLoad(TraceCall)
    \/ IdStore(TraceCall)
    \/ IdFormat(TraceCall)
    \/ ExportPush(TraceCall)
    \/ ExportEmit(TraceCall)
    \/ ExportFinish(TraceCall)
    \/ \E g \in AllGoroutines : GoRun(g)

SpecRecv == InitRecv /\ [][NextRecv]_vars

\* SpecRecv under the Go scheduler: a goroutine that can run does run, be it
\* one started by emitEvent or the one serving the Export call
RecvFairness ==
    /\ \A g \in AllGoroutines : WF_vars(GoRun(g))
    /\ WF_vars(HandlerStep(TraceCall))

SpecRecvFair == SpecRecv /\ RecvFairness

\* ------------- SpecClear: Export calls, ClearAll and the API calls at once
MetricCall == <<"metric", 1>>

\* one resource group, one scope, one leaf item
OneItem == <<<<1>>>>

NextClear ==
    \/ \E h \in {TraceCall, MetricCall} : ExportBegin(h, OneItem, MaxItems)
    \/ \E h \in {TraceCall, MetricCall} : IdLoad(h)
    \/ \E h \in {TraceCall, MetricCall} : IdStore(h)
    \/ \E h \in {TraceCall, MetricCall} : IdFormat(h)
    \/ \E h \in {TraceCall, MetricCall} : ExportPush(h)
    \/ \E h \in {TraceCall, MetricCall} : ExportEmit(h)
    \/ \E h \in {TraceCall, MetricCall} : ExportFinish(h)
    \/ \E s \in Signals : ClearStore(s)
    \/ ClearStats
    \/ GetStatsBegin
    \/ GetStatsRead
    \/ GetStatsReturn
    \/ \E s \in Signals : GetStore(s)

SpecClear == InitRecv /\ [][NextClear]_vars

\* ------------------ SpecIds: two Export calls of the trace service at once
TraceCalls == {<<"trace", 1>>, <<"trace", 2>>}

NextIds ==
    \/ \E h \in TraceCalls, shape \in SimpleShapes : ExportBegin(h, shape, MaxItems)
    \/ \E h \in TraceCalls : IdLoad(h)
    \/ \E h \in TraceCalls : IdStore(h)
    \/ \E h \in TraceCalls : IdFormat(h)
    \/ \E h \in TraceCalls : ExportPush(h)
    \/ \E h \in TraceCalls : ExportEmit(h)
    \/ \E h \in TraceCalls : ExportFinish(h)
    \/ Tick

SpecIds == InitRecv /\ [][NextIds]_vars

\* ---- SpecCount: two Export calls of the trace service at once, ClearAll
NextCount ==
    \/ \E h \in TraceCalls, shape \in SimpleShapes : ExportBegin(h, shape, MaxItems)
    \/ \E h \in TraceCalls : IdLoad(h)
    \/ \E h \in TraceCalls : IdStore(h)
    \/ \E h \in TraceCalls : IdFormat(h)
    \/ \E h \in TraceCalls : ExportPush(h)
    \/ \E h \in TraceCalls : ExportEmit(h)
    \/ \E h \in TraceCalls : ExportFinish(h)
    \/ \E s \in Signals : ClearStore(s)
    \/ ClearStats

SpecCount == InitRecv /\ [][NextCount]_vars

\* ------------------------------------------- requests of every shape
\* the shapes of k leaf items: one scope of k; or a resource group of no
\* scope, then one of an empty scope and a scope of one, then one of k-1
\* scopes of one
ShapesOf(k) ==
    {<<<<k>>>>, <<<<>>, <<0, 1>>, [i \in 1..(k - 1) |-> 1]>>}

\* no resource group; a resource group of no scope; a scope of no leaf item
EmptyShapes == {<<>>, <<<<>>>>, <<<<0>>>>}

\* the shapes of at most n leaf items
NestedShapes(n) == EmptyShapes \cup UNION {ShapesOf(k) : k \in 1..n}

\* the receiver with stores of capacity ExpCap
InitExports ==
    /\ rb = NewRingBuffer(ExpCap)
    /\ hist = <<>>
    /\ nextItem = 1
    /\ held = NoSlice
    /\ net = NoNet
    /\ app = NewApp
    /\ reg = NoReg
    /\ hook = NewHook
    /\ lastOp = NoOp
    /\ ConcInit
    /\ NewOTLPReceiver(ExpCap)

\* --------- SpecExports: two Export calls of the trace service at once,
\* requests of every shape
NextExports ==
    \/ \E h \in TraceCalls : ExportNil(h)
    \/ \E h \in TraceCalls, shape \in NestedShapes(ExpItems) : ExportBegin(h, shape, ExpItems)
    \/ \E h \in TraceCalls : IdLoad(h)
    \/ \E h \in TraceCalls : IdStore(h)
    \/ \E h \in TraceCalls : IdFormat(h)
    \/ \E h \in TraceCalls : ExportPush(h)
    \/ \E h \in TraceCalls : ExportEmit(h)
    \/ \E h \in TraceCalls : ExportFinish(h)

SpecExports == InitExports /\ [][NextExports]_vars

\* ------ SpecSignals: one Export call of each service at once, requests of
\* every shape
LogCall == <<"log", 1>>
SignalCalls == {TraceCall, MetricCall, LogCall}

NextSignals ==
    \/ \E h \in SignalCalls : ExportNil(h)
    \/ \E h \in SignalCalls, shape \in NestedShapes(SigItems) : ExportBegin(h, shape, SigItems)
    \/ \E h \in SignalCalls : IdLoad(h)
    \/ \E h \in SignalCalls : IdStore(h)
    \/ \E h \in SignalCalls : IdFormat(h)
    \/ \E h \in SignalCalls : ExportPush(h)
    \/ \E h \in SignalCalls : ExportEmit(h)
    \/ \E h \in SignalCalls : ExportFinish(h)

SpecSignals == InitExports /\ [][NextSignals]_vars

\* -- SpecEmit: a call of the trace service and one of the logs service at
\* once, each with one scope of leaf items, and one callback, which
\* returns, registered at some time
EmitCalls == {TraceCall, LogCall}

NextEmit ==
    \/ callbacks = <<>> /\ OnEvent("returns")
    \/ \E h \in EmitCalls, k \in 1..MaxItems : ExportBegin(h, <<<<k>>>>, MaxItems)
    \/ \E h \in EmitCalls : IdLoad(h)
    \/ \E h \in EmitCalls : IdStore(h)
    \/ \E h \in EmitCalls : IdFormat(h)
    \/ \E h \in EmitCalls : ExportPush(h)
    \/ \E h \in EmitCalls : ExportEmit(h)
    \/ \E h \in EmitCalls : ExportFinish(h)
    \/ \E g \in AllGoroutines : GoRun(g)

SpecEmit == InitRecv /\ [][NextEmit]_vars

\* ------------------ SpecStart: Start and Stop beside a trace Export call
\* Start that assigns r.listener before it looks at the error
StartAssignsFirst ==
    /\ ~crashed
    /\ net.starts < MaxStarts
    /\ IF net.port # "free"
       THEN net' = [net EXCEPT !.listener = 0, !.err = TRUE, !.starts = @ + 1]
       ELSE net' = [net EXCEPT !.listener = net.made + 1, !.server = net.made + 1,
                               !.made = @ + 1, !.serving = net.made + 1,
                               !.port = "self", !.err = FALSE, !.starts = @ + 1]
    /\ UNCHANGED <<rb, hist, nextItem, lastOp, held, app, reg, hook, concVars, recvVars>>

\* the body of Start: net.Listen fails when the port is taken and Start
\* returns the error; otherwise r.listener and r.server are set and a
\* goroutine serves
Started(n) ==
    IF n.port # "free"
    THEN [n EXCEPT !.err = TRUE, !.starts = @ + 1]
    ELSE [n EXCEPT !.listener = n.made + 1, !.server = n.made + 1,
                   !.made = @ + 1, !.serving = n.made + 1,
                   !.port = "self", !.err = FALSE, !.starts = @ + 1]

Start ==
    /\ ~crashed
    /\ net.starts < MaxStarts
    /\ net' = Started(net)
    /\ UNCHANGED <<rb, hist, nextItem, lastOp, held, app, reg, hook, concVars, recvVars>>

\* Stop: r.server.GracefulStop() and r.listener.Close(), each unless nil;
\* the two fields keep their values
Stop ==
    /\ ~crashed
    /\ net.server # 0
    /\ net' = [net EXCEPT !.serving = 0,
                           !.port = IF @ = "self" THEN "free" ELSE @]
    /\ UNCHANGED <<rb, hist, nextItem, lastOp, held, app, reg, hook, concVars, recvVars>>

\* another process starts or stops listening on the port
OtherListens ==
    /\ net.port \in {"free", "other"}
    /\ net' = [net EXCEPT !.port = IF @ = "free" THEN "other" ELSE "free"]
    /\ UNCHANGED <<rb, hist, nextItem, lastOp, held, app, reg, hook, concVars, recvVars>>

NextStart ==
    \/ Start
    \/ Stop
    \/ OtherListens
    \/ ExportBegin(TraceCall, OneItem, MaxItems)
    \/ IdLoad(TraceCall)
    \/ IdStore(TraceCall)
    \/ IdFormat(TraceCall)
    \/ ExportPush(TraceCall)
    \/ ExportEmit(TraceCall)
    \/ ExportFinish(TraceCall)

SpecStart == InitRecv /\ [][NextStart]_vars

\* ---------------- SpecBridge: the bridge's callback and the streaming flag
\* Startup: the receiver is made, the callback registered and Start called
Startup ==
    /\ ~crashed
    /\ callbacks = <<>>
    /\ net.starts = 0
    /\ callbacks' = Append(callbacks, "bridge")
    /\ net' = Started(net)
    /\ UNCHANGED <<rb, hist, nextItem, lastOp, held, app, reg, hook, concVars, stores,
                   stats, exp, nextEv, pushed, idCounter, clock, clr, rd, gor,
                   delivered, crashed>>

Ingested == UNION {PushedItems(s) : s \in Signals}

\* StartStreaming: a.streaming = true under the lock; `early` remembers what
\* the stores had been given when the first call was made
StartStreaming ==
    /\ app' = [app EXCEPT !.streaming = TRUE, !.started = TRUE,
                           !.stopped = FALSE,
                           !.early = IF app.started THEN @ ELSE Ingested]
    /\ UNCHANGED <<rb, hist, nextItem, lastOp, held, net, reg, hook, concVars, recvVars>>

\* StopStreaming: a.streaming = false under the lock
StopStreaming ==
    /\ app' = [app EXCEPT !.streaming = FALSE, !.stopped = TRUE]
    /\ UNCHANGED <<rb, hist, nextItem, lastOp, held, net, reg, hook, concVars, recvVars>>

\* the goroutine of the bridge's callback runs as far as RUnlock: it has
\* read the flag
BridgeRead(g) ==
    /\ ~crashed
    /\ g \in gor
    /\ callbacks[g.cb] = "bridge"
    /\ gor' = gor \ {g}
    /\ delivered' = delivered \cup {<<g.cb, g.ev>>}
    /\ app' = [app EXCEPT
                  !.running = @ \cup {[ev |-> g.ev, streaming |-> app.streaming]},
                  !.ran = @ \cup {[ev |-> g.ev, streaming |-> app.streaming]}]
    /\ UNCHANGED <<rb, hist, nextItem, lastOp, held, net, reg, hook, concVars, stores,
                   stats, exp, nextEv, pushed, idCounter, clock, clr, rd,
                   callbacks, crashed>>

\* a callback that emits without looking at the flag it read
BridgeEmitAlways(c) ==
    /\ c \in app.running
    /\ app' = [app EXCEPT !.running = @ \ {c},
                           !.forwarded = @ \cup {c.ev}]
    /\ UNCHANGED <<rb, hist, nextItem, lastOp, held, net, reg, hook, concVars, recvVars>>

\* the rest of the callback: runtime.EventsEmit if the flag read was true
BridgeEmit(c) ==
    /\ c \in app.running
    /\ app' = [app EXCEPT !.running = @ \ {c},
                           !.forwarded = IF c.streaming THEN @ \cup {c.ev} ELSE @]
    /\ UNCHANGED <<rb, hist, nextItem, lastOp, held, net, reg, hook, concVars, recvVars>>

NextBridge ==
    \/ Startup
    \/ StartStreaming
    \/ StopStreaming
    \/ \E h \in EmitCalls, k \in 1..MaxItems :
           net.serving # 0 /\ ExportBegin(h, <<<<k>>>>, MaxItems)
    \/ \E h \in EmitCalls : IdLoad(h)
    \/ \E h \in EmitCalls : IdStore(h)
    \/ \E h \in EmitCalls : IdFormat(h)
    \/ \E h \in EmitCalls : ExportPush(h)
    \/ \E h \in EmitCalls : ExportEmit(h)
    \/ \E h \in EmitCalls : ExportFinish(h)
    \/ \E g \in AllGoroutines : BridgeRead(g)
    \/ \E c \in app.running : BridgeEmit(c)

SpecBridge == InitRecv /\ [][NextBridge]_vars

\* ------------- SpecReg: OnEvent calls beside an emitEvent call in progress
\* the callback goroutine i registers
RegKind(i) == IF i % 2 = 1 THEN "returns" ELSE "blocks"

regRest ==
    <<rb, hist, nextItem, lastOp, held, net, app, hook, concVars, stores,
      stats, nextEv, pushed, idCounter, clock, clr, rd, delivered, crashed>>

\* OnEvent that appends without r.callbacksMu
RegLockFree(i) ==
    /\ ~crashed
    /\ reg.on[i] = "idle"
    /\ reg' = [reg EXCEPT !.on[i] = "locked"]
    /\ UNCHANGED <<regRest, exp, callbacks, gor>>

\* OnEvent: r.callbacksMu.Lock()
RegLock(i) ==
    /\ ~crashed
    /\ reg.on[i] = "idle"
    /\ reg.w = 0
    /\ reg' = [reg EXCEPT !.w = i, !.on[i] = "locked"]
    /\ UNCHANGED <<regRest, exp, callbacks, gor>>

\* OnEvent: append loads r.callbacks
RegLoad(i) ==
    /\ ~crashed
    /\ reg.on[i] = "locked"
    /\ reg' = [reg EXCEPT !.on[i] = "loaded", !.tmp[i] = callbacks]
    /\ UNCHANGED <<regRest, exp, callbacks, gor>>

\* OnEvent: r.callbacks = the slice loaded with the callback appended
RegStore(i) ==
    /\ ~crashed
    /\ reg.on[i] = "loaded"
    /\ callbacks' = Append(reg.tmp[i], RegKind(i))
    /\ reg' = [reg EXCEPT !.on[i] = "stored", !.tmp[i] = <<>>,
                           !.order = Append(@, i)]
    /\ UNCHANGED <<regRest, exp, gor>>

\* OnEvent: the deferred r.callbacksMu.Unlock(); the call returns
RegUnlock(i) ==
    /\ ~crashed
    /\ reg.on[i] = "stored"
    /\ reg' = [reg EXCEPT !.on[i] = "done", !.w = IF @ = i THEN 0 ELSE @]
    /\ UNCHANGED <<regRest, exp, callbacks, gor>>

\* emitEvent: callbacks := r.callbacks between RLock and RUnlock
EmitSnap(h) ==
    /\ ~crashed
    /\ exp[h].pc = "emit"
    /\ reg.em.pc = "idle"
    /\ reg.w = 0
    /\ reg' = [reg EXCEPT !.em = [pc |-> "loop", list |-> callbacks,
                                   i |-> 0, started |-> <<>>]]
    /\ UNCHANGED <<regRest, exp, callbacks, gor>>

\* emitEvent: one iteration of the loop, go cb(event)
EmitGo(h) ==
    LET ev == TelemetryEvent(h[1], exp[h].cur)
    IN  /\ ~crashed
        /\ exp[h].pc = "emit"
        /\ reg.em.pc = "loop"
        /\ reg.em.i < Len(reg.em.list)
        /\ gor' = gor \cup {[cb |-> reg.em.i + 1, ev |-> ev]}
        /\ reg' = [reg EXCEPT !.em.i = @ + 1,
                               !.em.started = Append(@, reg.em.i + 1)]
        /\ UNCHANGED <<regRest, exp, callbacks>>

\* emitEvent: the loop has ended and emitEvent returns to the handler
EmitReturn(h) ==
    LET e == exp[h]
        at == NextPlace(e.req, e.at)
    IN  /\ ~crashed
        /\ e.pc = "emit"
        /\ reg.em.pc = "loop"
        /\ reg.em.i = Len(reg.em.list)
        /\ exp' = [exp EXCEPT ![h].at = at,
                              ![h].pc = IF at = AtEnd THEN "finish" ELSE "load",
                              ![h].emitted = @ + 1]
        /\ reg' = [reg EXCEPT !.em = NoEmit]
        /\ UNCHANGED <<regRest, callbacks, gor>>

NextReg ==
    \/ \E i \in Registrars : RegLock(i)
    \/ \E i \in Registrars : RegLoad(i)
    \/ \E i \in Registrars : RegStore(i)
    \/ \E i \in Registrars : RegUnlock(i)
    \/ \E k \in 1..MaxItems : ExportBegin(TraceCall, <<<<k>>>>, MaxItems)
    \/ IdLoad(TraceCall)
    \/ IdStore(TraceCall)
    \/ IdFormat(TraceCall)
    \/ ExportPush(TraceCall)
    \/ EmitSnap(TraceCall)
    \/ EmitGo(TraceCall)
    \/ EmitReturn(TraceCall)
    \/ ExportFinish(TraceCall)
    \/ \E g \in AllGoroutines : GoRun(g)

SpecReg == InitRecv /\ [][NextReg]_vars

\* ----------------------- SpecHook: the frontend hook handling events
\* the ids the events carry: the id of a zero-valued item, and others
HookIds == {"", "a", "b", "c"}

\* Map.has
MapHas(m, id) == \E j \in 1..Len(m) : m[j].id = id

\* Map.set: an id that is present keeps its place and takes the new value,
\* a new id goes to the end
MapSet(m, id, v) ==
    IF MapHas(m, id)
    THEN [j \in 1..Len(m) |-> IF m[j].id = id THEN [id |-> id, v |-> v] ELSE m[j]]
    ELSE Append(m, [id |-> id, v |-> v])

\* a value JavaScript takes as true in a condition: any string but ""
Truthy(id) == id # ""

\* if (size > MAX_BUFFER_SIZE) { firstKey = keys().next().value;
\*                                if (firstKey) delete(firstKey) }
Trim(m) ==
    IF Len(m) > MaxBufferSize /\ Truthy(m[1].id) THEN Tail(m) ELSE m

\* handleTelemetryEvent, the case of the event's type
handleTelemetryEvent(t, id) ==
    /\ hook.handled < MaxEvents
    /\ hook' = [hook EXCEPT ![t] = Trim(MapSet(@, id, hook.handled + 1)),
                             !.handled = @ + 1]
    /\ UNCHANGED <<rb, hist, nextItem, lastOp, held, net, app, reg, concVars,
                   recvVars>>

\* handleClearEvent, and clearAll once the backend call has returned: the
\* three Maps are cleared
handleClearEvent ==
    /\ hook' = [NewHook EXCEPT !.handled = hook.handled]
    /\ UNCHANGED <<rb, hist, nextItem, lastOp, held, net, app, reg, concVars,
                   recvVars>>

NextHook ==
    \/ \E t \in Signals, id \in HookIds : handleTelemetryEvent(t, id)
    \/ handleClearEvent

SpecHook == InitRecv /\ [][NextHook]_vars

\* ------------------------------------------------- the converter
\* key-value pairs of the wire format: the key, the variant of the value
\* ("nil" for a missing value), its content and, for the bytes variant,
\* its bytes
KeyValues ==
    {[key |-> "service.name", variant |-> "StringValue", value |-> "checkout",
      bytes |-> <<>>],
     [key |-> "service.name", variant |-> "IntValue", value |-> "7",
      bytes |-> <<>>],
     [key |-> "service.name", variant |-> "nil", value |-> "", bytes |-> <<>>],
     [key |-> "service.name", variant |-> "BytesValue", value |-> "",
      bytes |-> <<10, 255>>],
     [key |-> "host.name", variant |-> "StringValue", value |-> "h1",
      bytes |-> <<>>]}

\* the lists of at most n key-value pairs
RECURSIVE KeyValueLists(_)
KeyValueLists(n) ==
    IF n = 0 THEN {<<>>}
    ELSE KeyValueLists(n - 1)
         \cup {Append(l, kv) : l \in {m \in KeyValueLists(n - 1) : Len(m) = n - 1},
                                kv \in KeyValues}

\* the resource of a resource group: missing, or with attributes
NilResource == [nil |-> TRUE, attributes |-> <<>>]
ResourceInputs ==
    {NilResource}
    \cup {[nil |-> FALSE, attributes |-> l] : l \in KeyValueLists(MaxAttrs)}

\* a log record of the wire format: missing, or with its severity number
NilLog == [nil |-> TRUE, severityNumber |-> 0]
LogInputs ==
    {NilLog}
    \cup {[nil |-> FALSE, severityNumber |-> n] : n \in (-MaxSeverity)..MaxSeverity}

\* convertAnyValue: the Go value and its dynamic type
\* hex.EncodeToString: two lowercase hexadecimal digits per byte
HexDigits ==
    <<"0", "1", "2", "3", "4", "5", "6", "7", "8", "9", "a", "b", "c", "d", "e", "f">>

RECURSIVE EncodeToString(_)
EncodeToString(bs) ==
    IF bs = <<>> THEN ""
    ELSE HexDigits[(Head(bs) \div 16) + 1] \o HexDigits[(Head(bs) % 16) + 1]
         \o EncodeToString(Tail(bs))

convertAnyValue(kv) ==
    CASE kv.variant = "StringValue" -> [v |-> kv.value, dyn |-> "string"]
      [] kv.variant = "IntValue" -> [v |-> kv.value, dyn |-> "int64"]
      [] kv.variant = "BytesValue" -> [v |-> EncodeToString(kv.bytes), dyn |-> "string"]
      [] OTHER -> [v |-> "", dyn |-> "nil"]

getValueType(kv) ==
    CASE kv.variant = "nil" -> "null"
      [] kv.variant = "StringValue" -> "string"
      [] kv.variant = "IntValue" -> "int"
      [] kv.variant = "BytesValue" -> "bytes"
      [] OTHER -> "unknown"

\* convertAttributes: nil for no attributes, else one Attribute per pair
convertAttributes(attrs) ==
    [i \in 1..Len(attrs) |->
        [key |-> attrs[i].key, value |-> convertAnyValue(attrs[i]),
         type |-> getValueType(attrs[i])]]

\* extractServiceName: the first service.name attribute whose value is a
\* string, "unknown" if there is none
\* a scan that keeps the last match instead of returning the first
RECURSIVE extractServiceNameLast(_)
extractServiceNameLast(attrs) ==
    IF attrs = <<>> THEN "unknown"
    ELSE LET a == attrs[Len(attrs)]
         IN  IF a.key = "service.name" /\ a.value.dyn = "string"
             THEN a.value.v
             ELSE extractServiceNameLast(SubSeq(attrs, 1, Len(attrs) - 1))

RECURSIVE extractServiceName(_)
extractServiceName(attrs) ==
    IF attrs = <<>> THEN "unknown"
    ELSE IF Head(attrs).key = "service.name" /\ Head(attrs).value.dyn = "string"
         THEN Head(attrs).value.v
         ELSE extractServiceName(Tail(attrs))

\* Resource{}: the zero value
EmptyResource == [attributes |-> <<>>, serviceName |-> ""]

ConvertResource(rsc) ==
    IF rsc.nil THEN EmptyResource
    ELSE [attributes |-> convertAttributes(rsc.attributes),
          serviceName |-> extractServiceName(convertAttributes(rsc.attributes))]

\* the bands with the bounds left out of them
normalizeSeverityStrict(num) ==
    IF num < 0 THEN "unspecified"
    ELSE IF num < 4 THEN "trace"
    ELSE IF num < 8 THEN "debug"
    ELSE IF num < 12 THEN "info"
    ELSE IF num < 16 THEN "warn"
    ELSE IF num < 20 THEN "error"
    ELSE "fatal"

\* switch { case num <= 0: ... case num <= 4: ... default: fatal }
normalizeSeverity(num) ==
    IF num <= 0 THEN "unspecified"
    ELSE IF num <= 4 THEN "trace"
    ELSE IF num <= 8 THEN "debug"
    ELSE IF num <= 12 THEN "info"
    ELSE IF num <= 16 THEN "warn"
    ELSE IF num <= 20 THEN "error"
    ELSE "fatal"

\* InstrumentationScope{} and LogRecord{}: the zero values
EmptyScope == [name |-> "", version |-> ""]
EmptyLogRecord ==
    [id |-> "", severityNumber |-> 0, severity |-> "",
     resource |-> EmptyResource, instrumentationScope |-> EmptyScope]

ConvertLogRecord(log, resource, scope) ==
    IF log.nil THEN EmptyLogRecord
    ELSE [id |-> "log", severityNumber |-> log.severityNumber,
          severity |-> normalizeSeverity(log.severityNumber),
          resource |-> resource, instrumentationScope |-> scope]

\* what the logs store holds after Export of one resource group with one
\* scope and one log record: the resource is converted once for the group,
\* the record converted with it and pushed
ExportGroup(rsc, log) ==
    GetAll(Push(NewRingBufferOf(1, EmptyLogRecord),
                ConvertLogRecord(log, ConvertResource(rsc), EmptyScope)))

\* SpecConv: the converter applied to every resource and log record
InitConv ==
    /\ rb = NewRingBuffer(1)
    /\ hist = <<>>
    /\ nextItem = 1
    /\ held = NoSlice
    /\ net = NoNet
    /\ app = NewApp
    /\ reg = NoReg
    /\ hook = NewHook
    /\ \E r \in ResourceInputs, l \in LogInputs :
           lastOp = [op |-> "none", arg |-> [resource |-> r, log |-> l], res |-> 0]
    /\ ConcInit
    /\ RecvInit

DoNormalizeSeverity ==
    /\ ~lastOp.arg.log.nil
    /\ lastOp' = [lastOp EXCEPT !.op = "normalizeSeverity",
                                !.res = normalizeSeverity(lastOp.arg.log.severityNumber)]
    /\ UNCHANGED <<rb, hist, nextItem, held, net, app, reg, hook, concVars, recvVars>>

DoConvertResource ==
    /\ lastOp' = [lastOp EXCEPT !.op = "ConvertResource",
                                !.res = ConvertResource(lastOp.arg.resource)]
    /\ UNCHANGED <<rb, hist, nextItem, held, net, app, reg, hook, concVars, recvVars>>

DoConvertLogRecord ==
    /\ lastOp' = [lastOp EXCEPT !.op = "ConvertLogRecord",
                                !.res = ConvertLogRecord(lastOp.arg.log,
                                            ConvertResource(lastOp.arg.resource),
                                            EmptyScope)]
    /\ UNCHANGED <<rb, hist, nextItem, held, net, app, reg, hook, concVars, recvVars>>

DoExportGroup ==
    /\ lastOp' = [lastOp EXCEPT !.op = "Export",
                                !.res = ExportGroup(lastOp.arg.resource, lastOp.arg.log)]
    /\ UNCHANGED <<rb, hist, nextItem, held, net, app, reg, hook, concVars, recvVars>>

NextConv ==
    \/ DoNormalizeSeverity
    \/ DoConvertResource
    \/ DoConvertLogRecord
    \/ DoExportGroup

SpecConv == InitConv /\ [][NextConv]_vars

\* ------------------------------------- the converter on partial input
\* a nil element of a repeated field, an attribute of a variant the
\* converter does not know, and the lists with them
NilKeyValue ==
    [key |-> "", variant |-> "", value |-> "", bytes |-> <<>>, nil |-> TRUE]
UnknownKeyValue ==
    [key |-> "k", variant |-> "Unrecognized", value |-> "", bytes |-> <<>>]
WireKeyValues ==
    {kv \in KeyValues : kv.variant \in {"StringValue", "nil"}}
    \cup {NilKeyValue, UnknownKeyValue}

RECURSIVE ListsOver(_, _)
ListsOver(S, n) ==
    IF n = 0 THEN {<<>>}
    ELSE ListsOver(S, n - 1)
         \cup {Append(l, x) : l \in {m \in ListsOver(S, n - 1) : Len(m) = n - 1},
                               x \in S}

\* a field of a nil list element is read: kv.Key, dp.Attributes
NilElement(l) == \E i \in 1..Len(l) : "nil" \in DOMAIN l[i] /\ l[i].nil

\* the scope of a scope group: missing, or with name and version
ScopeInputs == {[nil |-> TRUE, name |-> "", version |-> ""],
                [nil |-> FALSE, name |-> "lib", version |-> "1.0"]}

ConvertInstrumentationScope(scope) ==
    IF scope.nil THEN EmptyScope
    ELSE [name |-> scope.name, version |-> scope.version]

\* the status of a span: missing, or with its code
StatusInputs ==
    {[nil |-> TRUE, code |-> 0, message |-> ""]}
    \cup {[nil |-> FALSE, code |-> c, message |-> "m"] : c \in 0..3}

convertStatusCode(status) ==
    IF status.nil THEN "unset"
    ELSE IF status.code = 1 THEN "ok"
    ELSE IF status.code = 2 THEN "error"
    ELSE "unset"

getStatusMessage(status) == IF status.nil THEN "" ELSE status.message

\* unsigned and signed integers of TimeBits bits
Wrap == 2 ^ TimeBits
\* int64(x) of an unsigned x
Int64(x) == IF x >= Wrap \div 2 THEN x - Wrap ELSE x

\* a span of the wire format: missing, or with its timestamps, status and
\* attributes. The timestamps are nanoseconds since 1970 below the sign bit.
NilSpan ==
    [nil |-> TRUE, start |-> 0, end |-> 0, status |-> [nil |-> TRUE, code |-> 0, message |-> ""],
     attributes |-> <<>>]
SpanInputs ==
    {NilSpan}
    \cup {[nil |-> FALSE, start |-> a, end |-> b, status |-> st, attributes |-> l] :
             a \in 0..(Wrap \div 2 - 1), b \in 0..(Wrap \div 2 - 1),
             st \in StatusInputs,
             l \in {<<>>, <<NilKeyValue>>}}

Span0 ==
    [id |-> "", startTimeUnixNano |-> 0, endTimeUnixNano |-> 0,
     durationMs |-> <<0, 1000000>>, statusCode |-> "", statusMessage |-> "",
     attributes |-> <<>>, resource |-> EmptyResource,
     instrumentationScope |-> EmptyScope]

\* float64(span.EndTimeUnixNano - span.StartTimeUnixNano) / 1e6: the
\* difference of the two unsigned timestamps, which wraps, over 1e6
Duration(span) == <<(span.end - span.start) % Wrap, 1000000>>

\* ConvertSpan for a span whose lists have no nil element
ConvertSpan(span, resource, scope) ==
    IF span.nil THEN Span0
    ELSE [id |-> "span",
          startTimeUnixNano |-> Int64(span.start),
          endTimeUnixNano |-> Int64(span.end),
          durationMs |-> Duration(span),
          statusCode |-> convertStatusCode(span.status),
          statusMessage |-> getStatusMessage(span.status),
          attributes |-> convertAttributes(span.attributes),
          resource |-> resource, instrumentationScope |-> scope]

\* the data points of a metric: a nil element, or a point with its value
NilPoint == [nil |-> TRUE, value |-> ""]
PointInputs ==
    {NilPoint} \cup {[nil |-> FALSE, value |-> v] : v \in {"AsInt", "AsDouble", ""}}

\* a metric of the wire format: missing, or with the variant of its payload
\* ("" for none), the inner message of the variant being there or not, and
\* the data points of the inner message
Variants == {"Gauge", "Sum", "Histogram", "Summary", "ExponentialHistogram"}
NilMetric == [nil |-> TRUE, variant |-> "", inner |-> FALSE, points |-> <<>>]
MetricInputs ==
    {NilMetric, [nil |-> FALSE, variant |-> "", inner |-> FALSE, points |-> <<>>]}
    \cup {[nil |-> FALSE, variant |-> v, inner |-> FALSE, points |-> <<>>] : v \in Variants}
    \cup {[nil |-> FALSE, variant |-> v, inner |-> TRUE, points |-> l] :
             v \in Variants, l \in ListsOver(PointInputs, MaxPoints)}

Metric0 ==
    [id |-> "", type |-> "", dataPoints |-> <<>>, resource |-> EmptyResource,
     instrumentationScope |-> EmptyScope]

MetricType(v) ==
    CASE v = "Gauge" -> "gauge"
      [] v = "Sum" -> "sum"
      [] v = "Histogram" -> "histogram"
      [] v = "Summary" -> "summary"
      [] v = "ExponentialHistogram" -> "exponentialHistogram"
      [] OTHER -> ""

\* convertNumberDataPoints and the like: one DataPoint per point
convertDataPoints(points) ==
    [i \in 1..Len(points) |-> [value |-> points[i].value, attributes |-> <<>>]]

\* ConvertMetric reads data.Gauge.DataPoints (data.Sum..., ...) of the
\* variant's inner message, and its loop reads dp.Attributes of each point
MetricPanics(metric) ==
    /\ ~metric.nil
    /\ metric.variant \in Variants
    /\ \/ ~metric.inner
       \/ metric.variant # "ExponentialHistogram" /\ NilElement(metric.points)

\* ConvertMetric for a metric it does not panic on
ConvertMetric(metric, resource, scope) ==
    IF metric.nil THEN Metric0
    ELSE [id |-> "metric", type |-> MetricType(metric.variant),
          dataPoints |-> IF metric.variant = "ExponentialHistogram" THEN <<>>
                         ELSE convertDataPoints(metric.points),
          resource |-> resource, instrumentationScope |-> scope]

\* SpecTotal: the converter functions applied once to an input that may
\* lack any optional part. A nil pointer dereference panics; nothing in the
\* converter recovers, so the conversion has no result then.
Input(kind, v) == [op |-> "none", arg |-> [kind |-> kind, v |-> v], res |-> 0]

InitTotal ==
    /\ rb = NewRingBuffer(1)
    /\ hist = <<>>
    /\ nextItem = 1
    /\ held = NoSlice
    /\ net = NoNet
    /\ app = NewApp
    /\ reg = NoReg
    /\ hook = NewHook
    /\ \/ \E l \in ListsOver(WireKeyValues, MaxAttrs) : lastOp = Input("attributes", l)
       \/ \E sc \in ScopeInputs : lastOp = Input("scope", sc)
       \/ \E sp \in SpanInputs : lastOp = Input("span", sp)
       \/ \E m \in MetricInputs : lastOp = Input("metric", m)
    /\ ConcInit
    /\ RecvInit

\* the function returns res, or panics
Outcome(name, panics, out) ==
    /\ lastOp.op = "none"
    /\ ~crashed
    /\ lastOp' = [lastOp EXCEPT !.op = name, !.res = IF panics THEN 0 ELSE out]
    /\ crashed' = panics
    /\ UNCHANGED <<rb, hist, nextItem, held, net, app, reg, hook, concVars, stores, stats,
                   exp, nextEv,
                   pushed, idCounter, clock, clr, rd, callbacks, gor, delivered>>

ApplyConvertAttributes ==
    /\ lastOp.arg.kind = "attributes"
    /\ Outcome("convertAttributes", NilElement(lastOp.arg.v),
               convertAttributes(lastOp.arg.v))

ApplyConvertScope ==
    /\ lastOp.arg.kind = "scope"
    /\ Outcome("ConvertInstrumentationScope", FALSE,
               ConvertInstrumentationScope(lastOp.arg.v))

ApplyConvertSpan ==
    /\ lastOp.arg.kind = "span"
    /\ Outcome("ConvertSpan",
               ~lastOp.arg.v.nil /\ NilElement(lastOp.arg.v.attributes),
               ConvertSpan(lastOp.arg.v, EmptyResource, EmptyScope))

ApplyConvertMetric ==
    /\ lastOp.arg.kind = "metric"
    /\ Outcome("ConvertMetric", MetricPanics(lastOp.arg.v),
               ConvertMetric(lastOp.arg.v, EmptyResource, EmptyScope))

NextTotal ==
    \/ ApplyConvertAttributes
    \/ ApplyConvertScope
    \/ ApplyConvertSpan
    \/ ApplyConvertMetric

SpecTotal == InitTotal /\ [][NextTotal]_vars

\* ------------------------------------------------- claims on Spec
\* Push applied to each item of a list, first to last
RECURSIVE PushEach(_, _, _)
PushEach(b, items, i) ==
    IF i > Len(items) THEN b ELSE PushEach(Push(b, items[i]), items, i + 1)

\* every list of at most MaxBatch items (two item values)
BatchLists == UNION {[1..k -> 1..2] : k \in 0..MaxBatch}

\* C1: Len() never exceeds the capacity, and once at least capacity items were
\* pushed since construction or the last Clear, Len() is the capacity and
\* IsFull() is true.
C1_CapacityInvariant ==
    /\ RbLen(rb) <= Cap(rb)
    /\ Len(hist) >= Cap(rb) => RbLen(rb) = Cap(rb) /\ IsFull(rb)

C1_Witness ==
    /\ Len(hist) > Cap(rb)
    /\ lastOp.op = "Push"
    /\ nextItem > Len(hist) + 1

\* C2: GetAll() is exactly the last min(pushed, capacity) items pushed since
\* construction or the last Clear, oldest first; so a Push on a full buffer
\* drops the oldest item and nothing else.
C2_FifoEviction ==
    GetAll(rb) = LastN(hist, Cap(rb))

C2_Witness ==
    /\ Cap(rb) = 3
    /\ hist = <<1, 2, 3, 4, 5>>
    /\ lastOp.op = "Push"
    /\ GetAll(rb) = <<3, 4, 5>>

\* C3: GetLast(n) is the last min(n, count) elements of GetAll(), in order:
\* GetAll() for n >= count, the last n for 0 < n < count, empty for n <= 0 or
\* an empty store.
C3_GetLast ==
    \A n \in -2..(MaxCap + 2) :
        /\ n <= 0 \/ rb.count = 0 => GetLast(rb, n) = <<>>
        /\ n > 0 /\ n >= rb.count => GetLast(rb, n) = GetAll(rb)
        /\ 0 < n /\ n < rb.count =>
               GetLast(rb, n) = SubSeq(GetAll(rb), rb.count - n + 1, rb.count)

C3_Witness ==
    /\ lastOp.op = "GetLast"
    /\ lastOp.arg = 2
    /\ rb.count = 3
    /\ rb.tail # 0
    /\ lastOp.res = LastN(hist, 2)

\* C4: GetLatest() is not-found exactly when nothing was pushed since
\* construction or the last Clear; otherwise it is found with the item pushed
\* last (the last item of the last batch).
C4_GetLatest ==
    /\ GetLatest(rb).found <=> hist # <<>>
    /\ hist # <<>> => GetLatest(rb).item = hist[Len(hist)]

C4_Witness ==
    /\ lastOp.op = "GetLatest"
    /\ lastOp.res.found
    /\ Len(hist) > Cap(rb)
    /\ lastOp.res.item = nextItem - 1

\* what a caller can observe of a store
Observe(b) ==
    [all |-> GetAll(b), latest |-> GetLatest(b), stats |-> Stats(b),
     len |-> RbLen(b), isFull |-> IsFull(b), isEmpty |-> IsEmpty(b)]

\* C6: from every reachable state Clear() gives count 0, isFull false, an
\* empty GetAll() and a not-found GetLatest(); a Clear() of an empty store and
\* a second Clear() change nothing observable; the cleared store is the store
\* NewRingBuffer builds for that capacity, so later pushes behave as on a new
\* buffer.
C6_Clear ==
    LET c == Clear(rb)
    IN  /\ Stats(c).count = 0
        /\ ~Stats(c).isFull
        /\ GetAll(c) = <<>>
        /\ ~GetLatest(c).found
        /\ Observe(Clear(c)) = Observe(c)
        /\ IsEmpty(rb) => Observe(c) = Observe(rb)
        /\ c = NewRingBuffer(Cap(rb))
        /\ lastOp.op = "Clear" => Observe(rb) = Observe(NewRingBuffer(Cap(rb)))

C6_Witness ==
    /\ lastOp.op = "Clear"
    /\ nextItem > Cap(rb) + 1
    /\ rb.count = 0

\* C7: PushBatch(items) leaves the store in the state that Push on each item
\* in order leaves it in, for every list: empty, or longer than the capacity.
C7_PushBatchIsPushEach ==
    \A items \in BatchLists :
        PushBatch(rb, items) = PushEach(rb, items, 1)

C7_Witness ==
    /\ lastOp.op = "PushBatch"
    /\ Len(lastOp.arg) > Cap(rb)
    /\ rb.tail # 0
    /\ GetAll(rb) = LastN(lastOp.arg, Cap(rb))

\* ------------------------------------- claims on SpecConc and SpecBatch
\* every writer has made its PushesPerWriter Push calls
AllWritersDone ==
    \A w \in Writers : pc[w] = "idle" /\ calls[w] = PushesPerWriter

\* every item the writers push
WriterItems ==
    {w[2] * 100 + j : w \in Writers, j \in 0..(PushesPerWriter - 1)}

\* C5: once the N writers have each finished their M Push calls, whatever the
\* interleaving with each other and with the readers, Len() is min(N*M,
\* capacity): every push took effect once (the history holds each item once)
\* and the store holds the last of them.
C5_ConcurrentPushes ==
    AllWritersDone =>
        /\ RbLen(rb) = Min(NumWriters * PushesPerWriter, Cap(rb))
        /\ Len(hist) = NumWriters * PushesPerWriter
        /\ {hist[i] : i \in 1..Len(hist)} = WriterItems
        /\ GetAll(rb) = LastN(hist, Cap(rb))

C5_Witness ==
    /\ AllWritersDone
    /\ RbLen(rb) = NumWriters * PushesPerWriter
    /\ Cap(rb) > RbLen(rb)
    /\ \E r \in Readers :
           /\ pc[r] = "unlock"
           /\ op[r] = "GetAll"
           /\ Len(res[r]) = RbLen(rb)

\* what a read returns on a store whose pushes since the last Clear, whole
\* calls only, are h
ReadOfHistory(o, a, h, cap) ==
    LET n == Min(Len(h), cap)
    IN  CASE o = "GetAll" -> LastN(h, cap)
          [] o = "GetLast" -> LastN(h, Min(a, cap))
          [] o = "Len" -> n
          [] o = "Stats" -> [count |-> n, capacity |-> cap,
                             usage |-> <<n, cap>>, isFull |-> n = cap]
          [] OTHER -> IF h = <<>> THEN [item |-> Zero, found |-> FALSE]
                      ELSE [item |-> h[Len(h)], found |-> TRUE]

\* C8: PushBatch is one critical section. A read returns what the store held
\* after whole calls only, never after a part of a batch; and while a batch
\* is being inserted the store holds the earlier calls' items followed by
\* the batch's items so far, nothing of another writer or a Clear in between.
C8_BatchAtomic ==
    /\ \A r \in Readers :
           pc[r] = "unlock" =>
               res[r] = ReadOfHistory(op[r], arg[r], hist, Cap(rb))
    /\ pc[Batcher] = "push_write" =>
           GetAll(rb) = LastN(hist \o SubSeq(arg[Batcher], 1, idx[Batcher]), Cap(rb))
    /\ pc[Batcher] = "unlock" =>
           GetAll(rb) = LastN(hist \o arg[Batcher], Cap(rb))

C8_Witness ==
    \E r \in Readers :
        /\ pc[r] = "unlock"
        /\ op[r] = "GetAll"
        /\ Len(res[r]) > 1
        /\ res[r][Len(res[r])] > 1000
        /\ res[r][Len(res[r]) - 1] > 1000
        /\ pc[<<"w", 1>>] = "lock_wait"

\* ------------------------------------------------------------- C9, C10
\* the callback invocations cb(event) that have begun
Invoked(kind) == {d \in delivered : callbacks[d[1]] = kind}

\* C9: emitEvent returns to the Export handler without waiting for a
\* callback to start or finish. While the process runs, an Export call in
\* progress can always take its next step (store the next item, emit its
\* event, count and return success), whatever callbacks are registered,
\* not yet started, or blocked forever; and an idle service accepts the
\* next Export call.
C9_EmitDoesNotWait ==
    ~crashed =>
        \A h \in {TraceCall} :
            /\ exp[h].pc # "idle" => ENABLED HandlerStep(h)
            /\ exp[h].pc = "idle" => ENABLED ExportNil(h)

\* a callback is blocked forever in the event of item 1, the Export call
\* that carried item 1 has returned success, and a later Export call with
\* item 2 has stored and emitted it and is about to return
C9_Witness ==
    /\ ~crashed
    /\ \E d \in Invoked("blocks") : d[2].item.n = 1
    /\ stats["trace"] = 1
    /\ exp[TraceCall].pc = "finish"
    /\ exp[TraceCall].req = <<<<<<2>>>>>>
    /\ exp[TraceCall].count = 1
    /\ \E g \in gor : callbacks[g.cb] = "blocks"

\* C10: once a callback has panicked on an event, the other callbacks
\* still receive their events (every started goroutine can run), the
\* Export call in progress can still take its next step, and the service
\* still accepts a later Export call.
C10_PanicIsolated ==
    Invoked("panics") # {} =>
        /\ \A g \in gor : ENABLED GoRun(g)
        /\ \A h \in {TraceCall} :
            /\ exp[h].pc # "idle" => ENABLED HandlerStep(h)
            /\ exp[h].pc = "idle" => ENABLED ExportNil(h)

\* ------------------------------------------------------------------ C11
\* C11: every callback registered before an item's emit is eventually
\* invoked with that item's event: each goroutine emitEvent started for a
\* callback and an event does call the callback with the event.
C11_EveryCallbackInvoked ==
    \A g \in AllGoroutines : (g \in gor) ~> (<<g.cb, g.ev>> \in delivered)

\* ------------------------------------------------------------------ C12
\* C12: ClearAll is one atomic step for its callers. No GetStats call reads
\* one store after a ClearAll in progress has taken its items and another
\* store while it still holds the items that ClearAll is yet to take; and
\* no Export call pushes an item into a store that a ClearAll has cleared
\* while that ClearAll is still at work on the others.
C12_ClearAllAtomic ==
    /\ \A i, j \in DOMAIN rd.mid :
           ~(rd.mid[i] = "wiped" /\ rd.mid[j] = "untouched" /\ rd.res[j] > 0)
    /\ \A s \in ClearedSoFar : pushed[s] = <<>>

\* ------------------------------------------------------------------ C13
\* the converted items at hand: those in the stores and those the Export
\* calls in progress have just built
AllConverted ==
    ({exp[h].cur : h \in Handlers}
        \cup UNION {{GetAll(stores[s])[i] : i \in 1..RbLen(stores[s])} : s \in Signals})
    \ {ZeroItem}

\* C13: no two converted items have the same id, and the id counter has
\* gone up by one for each conversion: once the Export calls have returned
\* it equals the number of items converted.
C13_UniqueIds ==
    /\ \A a, b \in AllConverted : a.n # b.n => a.id # b.id
    /\ (\A h \in Handlers : exp[h].pc = "idle") => idCounter = nextEv - 1

\* ------------------------------------------------------- C14, C15, C16
RECURSIVE Concat(_)
Concat(qs) == IF qs = <<>> THEN <<>> ELSE Head(qs) \o Concat(Tail(qs))

\* the leaf items of a request in traversal order: each item under each
\* scope under each resource group
Flatten(req) == Concat([r \in 1..Len(req) |-> Concat(req[r])])

LeafSet(req) == {Flatten(req)[i] : i \in 1..Len(Flatten(req))}

\* the elements of q that are in S, in the order of q
Restrict(q, S) == SelectSeq(q, LAMBDA x : x \in S)

\* the numbers of the items GetAll returns from store s
StoreNumbers(s) == [i \in 1..RbLen(stores[s]) |-> GetAll(stores[s])[i].n]

\* C14: when an Export call is about to return its success response, every
\* leaf item of its request has been converted and pushed exactly once, to
\* the store of the call's signal type and to no other, in traversal order;
\* the call has counted them all and nothing keeps it from returning. The
\* stores hold items of their own signal type only.
C14_ExportStoresAll ==
    /\ \A h \in Handlers : exp[h].pc = "finish" =>
           /\ Restrict(pushed[h[1]], LeafSet(exp[h].req)) = Flatten(exp[h].req)
           /\ \A s \in Signals \ {h[1]} : Restrict(pushed[s], LeafSet(exp[h].req)) = <<>>
           /\ exp[h].count = Len(Flatten(exp[h].req))
           /\ ENABLED ExportFinish(h)
    /\ \A s \in Signals : \A i \in 1..RbLen(stores[s]) : GetAll(stores[s])[i].sig = s

\* a trace call is about to return whose two spans sat in different
\* resource groups, behind an empty resource group and an empty scope,
\* while a call of the logs service is in progress
C14_Witness ==
    /\ exp[TraceCall].pc = "finish"
    /\ exp[TraceCall].req = <<<<>>, <<<<>>, <<1>>>>, <<<<2>>>>>>
    /\ pushed["trace"] = <<1, 2>>
    /\ exp[LogCall].pc # "idle"

\* C15: every step of an Export call whose request is nil or holds no leaf
\* item leaves the three stores, the received counters and the events as
\* they are, never converts, pushes or emits, and the call ends with the
\* empty success response.
C15_EmptyExport ==
    [][\A h \in Handlers :
          (exp'[h] # exp[h] /\ Flatten(exp[h].req) = <<>> /\ Flatten(exp'[h].req) = <<>>)
          => /\ UNCHANGED <<stores, stats, pushed, idCounter, gor, delivered>>
             /\ exp'[h].pc \in {"finish", "idle"}
             /\ exp'[h].pc = "idle" => exp'[h] = Returned]_vars

\* an Export call whose request has a resource group and a scope and no
\* leaf item is about to return, the trace store and counter not being empty
C15_Witness ==
    /\ \E h \in Handlers : exp[h].pc = "finish" /\ exp[h].req = <<<<<<>>>>>>
    /\ stats["trace"] > 0
    /\ ~IsEmpty(stores["trace"])

\* the sequence sub is a run of consecutive elements of the sequence full
Contiguous(sub, full) ==
    \E a \in 1..(Len(full) + 1) : \E b \in 0..Len(full) : sub = SubSeq(full, a, b)

\* C16: GetAll of a store returns the items in the order their pushes took
\* effect (the last ones, as many as the capacity), and the items of one
\* Export batch that are still stored appear in their batch order, with
\* none missing in between, whatever other calls push in between.
C16_StoreOrder ==
    \A s \in Signals :
        /\ StoreNumbers(s) = LastN(pushed[s], Cap(stores[s]))
        /\ \A h \in Handlers : h[1] = s =>
               Contiguous(Restrict(StoreNumbers(s), LeafSet(exp[h].req)),
                          Flatten(exp[h].req))

\* the trace store holds the two spans of one batch in their order and,
\* between them, the span of a concurrent call
C16_Witness ==
    /\ StoreNumbers("trace") = <<1, 3, 2>>
    /\ \E h \in TraceCalls : Flatten(exp[h].req) = <<1, 2>>

\* ------------------------------------------------------------------ C17
\* the goroutine is between taking and releasing rb.mu
Inside(p) == pc[p] \notin {"idle", "lock_wait"}

Writing(p) == Inside(p) /\ op[p] \in {"Push", "PushBatch", "Clear"}

\* C17: while Push, PushBatch or Clear is inside its critical section no
\* other call, writing or reading, is inside its own; the lock's writer
\* slot is the writing goroutine's and no reader is registered.
C17_WriterExcludes ==
    \A p \in Procs :
        Writing(p) =>
            /\ \A q \in Procs \ {p} : ~Inside(q)
            /\ mu.w = p
            /\ mu.readers = {}

\* two reads are inside their critical sections at once, GetAll in its
\* copy loop and ForEach in its loop, while a Push waits for them to leave
C17_Witness ==
    /\ pc[<<"r", 1>>] = "getall_copy"
    /\ pc[Prober] = "foreach"
    /\ idx[Prober] > 0
    /\ mu.readers = {<<"r", 1>>, Prober}
    /\ pc[<<"w", 1>>] = "lock_wait"

\* ------------------------------------------------------------------ C18
\* every goroutine that makes a fixed number of calls has made them
RunDone ==
    \A p \in LiveWriters \cup {Batcher} : pc[p] = "idle" /\ calls[p] = Budget(p)

\* C18: under fair scheduling every call in progress on the store, waiting
\* for the lock or inside its critical section, returns; and the run of the
\* writers with M pushes each and of the PushBatch goroutine comes to its
\* end and stays there, whatever the readers and Clear do meanwhile.
C18_CallsComplete ==
    /\ \A p \in LiveProcs : (pc[p] # "idle") ~> (pc[p] = "idle")
    /\ <>[]RunDone

\* the run is over: every writer and the PushBatch goroutine have made
\* their calls, while a read is returning and Clear waits for it
C18_Witness ==
    /\ RunDone
    /\ pc[Clearer] = "lock_wait"
    /\ pc[<<"r", 1>>] = "unlock"
    /\ op[<<"r", 1>>] = "GetLast"

\* ------------------------------------------------------------- C19, C20
\* the tiers of the severity numbers
Band(n) ==
    CASE n \in 1..4 -> "trace"
      [] n \in 5..8 -> "debug"
      [] n \in 9..12 -> "info"
      [] n \in 13..16 -> "warn"
      [] n \in 17..20 -> "error"
      [] n > 20 -> "fatal"
      [] OTHER -> "unspecified"

\* C19: normalizeSeverity gives unspecified for n <= 0, trace for 1..4,
\* debug for 5..8, info for 9..12, warn for 13..16, error for 17..20 and
\* fatal above 20 (so 0, 10, 19 and 25 give unspecified, info, error and
\* fatal); ConvertLogRecord sets the record's Severity to that tier and
\* keeps the number, and so does the record Export stores.
C19_SeverityBands ==
    LET n == lastOp.arg.log.severityNumber
    IN  /\ lastOp.op = "normalizeSeverity" => lastOp.res = Band(n)
        /\ (lastOp.op = "ConvertLogRecord" /\ ~lastOp.arg.log.nil) =>
               /\ lastOp.res.severity = Band(n)
               /\ lastOp.res.severityNumber = n
        /\ (lastOp.op = "Export" /\ ~lastOp.arg.log.nil) =>
               /\ Len(lastOp.res) = 1
               /\ lastOp.res[1].severity = Band(n)
               /\ lastOp.res[1].severityNumber = n

\* a log record of severity number 25 has been converted, to fatal
C19_Witness ==
    /\ lastOp.op = "ConvertLogRecord"
    /\ ~lastOp.arg.log.nil
    /\ lastOp.arg.log.severityNumber = 25
    /\ lastOp.res.severity = "fatal"

\* C20: the resource of a resource group being missing, ConvertResource
\* gives the empty Resource with serviceName "unknown", and the items
\* stored from the group carry serviceName "unknown".
C20_NilResourceUnknown ==
    lastOp.arg.resource.nil =>
        /\ lastOp.op = "ConvertResource" =>
               lastOp.res = [attributes |-> <<>>, serviceName |-> "unknown"]
        /\ (lastOp.op = "Export" /\ ~lastOp.arg.log.nil) =>
               \A i \in 1..Len(lastOp.res) :
                   lastOp.res[i].resource.serviceName = "unknown"

\* ------------------------------------------------------------------ C21
\* the places of the attributes with key service.name, and of those among
\* them whose wire value converts to a Go string
NamePlaces(kvs) == {i \in 1..Len(kvs) : kvs[i].key = "service.name"}
StringNamePlaces(kvs) ==
    {i \in NamePlaces(kvs) : kvs[i].variant \in {"StringValue", "BytesValue"}}

Least(S) == CHOOSE i \in S : \A j \in S : i <= j

\* C21 as stated: for a resource that is present the serviceName is decided
\* by the first attribute with key service.name, the attributes after it
\* making no difference, and is "unknown" when no attribute has the key.
C21_FirstKeyWins ==
    (lastOp.op = "ConvertResource" /\ ~lastOp.arg.resource.nil) =>
        LET kvs == lastOp.arg.resource.attributes
        IN  IF NamePlaces(kvs) = {}
            THEN lastOp.res.serviceName = "unknown"
            ELSE lastOp.res.serviceName =
                     ConvertResource([nil |-> FALSE,
                                      attributes |-> SubSeq(kvs, 1, Least(NamePlaces(kvs)))]
                                    ).serviceName

\* C21 amended: the serviceName is the value of the first attribute with key
\* service.name whose value is a string (a string value as it is, a bytes
\* value in hexadecimal), and "unknown" when there is no such attribute.
C21_FirstStringKeyWins ==
    (lastOp.op = "ConvertResource" /\ ~lastOp.arg.resource.nil) =>
        LET kvs == lastOp.arg.resource.attributes
            first == kvs[Least(StringNamePlaces(kvs))]
        IN  IF StringNamePlaces(kvs) = {}
            THEN lastOp.res.serviceName = "unknown"
            ELSE lastOp.res.serviceName =
                     IF first.variant = "StringValue" THEN first.value
                     ELSE EncodeToString(first.bytes)

\* a resource whose first service.name is an integer and whose second is a
\* string has been converted: the second one names the service
C21_Witness ==
    /\ lastOp.op = "ConvertResource"
    /\ ~lastOp.arg.resource.nil
    /\ Len(lastOp.arg.resource.attributes) = 2
    /\ lastOp.arg.resource.attributes[1].variant = "IntValue"
    /\ lastOp.arg.resource.attributes[2].variant = "BytesValue"
    /\ lastOp.res.serviceName = "0aff"

\* ------------------------------------------------------------------ C22
\* C22: no conversion panics, whatever optional part of its input is
\* missing; a missing status gives the status code unset, an attribute
\* without value gives null of type "null", an attribute of an unknown
\* variant gives null of type "unknown".
C22_ConverterTotal ==
    /\ ~crashed
    /\ lastOp.op = "convertAttributes" =>
           \A i \in 1..Len(lastOp.arg.v) :
               /\ lastOp.arg.v[i].variant = "nil" =>
                      lastOp.res[i].value.dyn = "nil" /\ lastOp.res[i].type = "null"
               /\ lastOp.arg.v[i].variant = "Unrecognized" =>
                      lastOp.res[i].value.dyn = "nil" /\ lastOp.res[i].type = "unknown"
    /\ (lastOp.op = "ConvertSpan" /\ ~lastOp.arg.v.nil /\ lastOp.arg.v.status.nil) =>
           lastOp.res.statusCode = "unset"
    /\ (lastOp.op = "ConvertInstrumentationScope" /\ lastOp.arg.v.nil) =>
           lastOp.res = EmptyScope

\* ------------------------------------------------------------------ C24
\* C24: the stored durationMs times 1e6 is the stored end timestamp minus
\* the stored start timestamp, whatever the two timestamps, an end before
\* the start included.
C24_DurationIsEndMinusStart ==
    (lastOp.op = "ConvertSpan" /\ ~crashed /\ ~lastOp.arg.v.nil) =>
        lastOp.res.durationMs =
            <<lastOp.res.endTimeUnixNano - lastOp.res.startTimeUnixNano, 1000000>>

\* ------------------------------------------------------------------ C25
\* the capacity a store asked to hold c items has
Granted(c) == IF c > 0 THEN c ELSE 1000

\* C25: a buffer constructed for c items has capacity c when c > 0 and
\* 1000 otherwise, and is empty; so have the three stores of a receiver
\* configured with c; no call on the buffer, Clear included, changes its
\* capacity.
C25_CapacityFixed ==
    /\ [](lastOp.op = "NewRingBuffer" =>
              /\ Cap(rb) = Granted(lastOp.arg)
              /\ RbLen(rb) = 0
              /\ IsEmpty(rb)
              /\ \A s \in Signals : Cap(stores[s]) = Granted(lastOp.arg))
    /\ [][Cap(rb') = Cap(rb)]_vars

\* a buffer of the default capacity has taken items and has been cleared
C25_Witness ==
    /\ lastOp.op = "Clear"
    /\ nextItem > 1
    /\ Cap(rb) = 1000
    /\ \A s \in Signals : Cap(stores[s]) = 1000

\* ------------------------------------------------------------------ C26
ReadOps ==
    {"GetAll", "GetLast", "GetLatest", "Len", "Cap", "IsFull", "IsEmpty",
     "ForEach", "Stats"}

\* C26: a read leaves the items, cursors, count and full flag as they are,
\* and the slice a caller got from GetAll or GetLast keeps the elements it
\* was returned with, whatever is pushed or cleared afterwards.
C26_ReadsKeepStore ==
    /\ [][lastOp'.op \in ReadOps => rb' = rb]_vars
    /\ [](Elements(held, rb) = held.ret)

\* the caller holds a slice and the slots it was read from have since been
\* overwritten or cleared
C26_Witness ==
    /\ Len(held.ret) > 0
    /\ lastOp.op \in {"Push", "PushBatch", "Clear"}
    /\ \A i \in 1..Len(held.ret) : rb.items[held.idx[i]] # held.ret[i]

\* ------------------------------------------------------------------ C28
\* C28: ForEach hands fn the items GetAll returns, in that order, up to
\* and including the first on which fn answers false and none after it;
\* all of them when fn never answers false; none when the store is empty.
C28_ForEachOrder ==
    lastOp.op = "ForEach" =>
        LET v == lastOp.res
            all == GetAll(rb)
            stop == lastOp.arg
        IN  /\ Len(v) <= Len(all)
            /\ v = SubSeq(all, 1, Len(v))
            /\ \A i \in 1..(Len(v) - 1) : v[i] \notin stop
            /\ Len(v) < Len(all) => (Len(v) > 0 /\ v[Len(v)] \in stop)
            /\ (\A i \in 1..Len(all) : all[i] \notin stop) => v = all
            /\ IsEmpty(rb) => v = <<>>

\* a wrapped buffer, fn answering false on an item that is not the newest
C28_Witness ==
    /\ lastOp.op = "ForEach"
    /\ rb.tail # 0
    /\ Len(lastOp.res) > 1
    /\ Len(lastOp.res) < RbLen(rb)

\* ------------------------------------------------------------------ C27
\* C27: what a Stats call is about to return, writers running beside it,
\* is the state of the store at that moment: the capacity is the store's,
\* the count lies between 0 and the capacity, usage is count / capacity,
\* and isFull holds exactly when the count is the capacity.
C27_StatsSnapshot ==
    \A p \in StatsProcs :
        (op[p] = "Stats" /\ pc[p] = "unlock") =>
            /\ res[p].capacity = Cap(rb)
            /\ res[p].count >= 0
            /\ res[p].count <= res[p].capacity
            /\ res[p].usage = <<res[p].count, res[p].capacity>>
            /\ res[p].isFull <=> (res[p].count = res[p].capacity)
            /\ res[p].count = RbLen(rb)

\* Stats returns from a full store while a writer waits for the lock
C27_Witness ==
    \E p \in StatsProcs :
        /\ op[p] = "Stats"
        /\ pc[p] = "unlock"
        /\ res[p].isFull
        /\ mu.w # None

\* ------------------------------------------------------------------ C29
\* C29: a step of an Export call leaves the stores and the received
\* counters of the other two signal types as they are, and every item in a
\* store is of the store's signal type.
C29_SignalsSeparate ==
    /\ [][\A h \in Handlers :
              exp'[h] # exp[h] =>
                  \A t \in Signals \ {h[1]} :
                      stores'[t] = stores[t] /\ stats'[t] = stats[t]]_vars
    /\ [](\A s \in Signals : \A i \in 1..RbLen(stores[s]) :
              GetAll(stores[s])[i].sig = s)

\* a metric has just been pushed, a trace call having returned before and
\* a call of the logs service being about to return
C29_Witness ==
    /\ exp[MetricCall].pc = "emit"
    /\ stats["trace"] > 0
    /\ RbLen(stores["metric"]) = 1
    /\ IsEmpty(stores["log"])
    /\ exp[LogCall].pc = "finish"

\* ------------------------------------------------------------------ C30
\* the Export call h returns in this step
Finishes(h) == exp[h].pc = "finish" /\ exp'[h].pc = "idle"

\* ClearAll resets the counters in this step, its last
Resets == clr.pc = "stats" /\ clr'.pc = "idle"

\* C30: the step in which an Export call returns adds the number of leaf
\* items of its request to the counter of its signal type, every one of
\* them having been pushed; a counter changes in no other step but the
\* one in which ClearAll sets all counters to 0. So a counter is the sum
\* of the sizes of the batches completed since the last ClearAll.
C30_CounterCounts ==
    /\ [][\A h \in Handlers :
              Finishes(h) =>
                  /\ stats'[h[1]] = stats[h[1]] + Len(Flatten(exp[h].req))
                  /\ exp[h].count = Len(Flatten(exp[h].req))
                  /\ exp[h].at = AtEnd]_vars
    /\ [][\A s \in Signals :
              stats'[s] # stats[s] =>
                  \/ \E h \in Handlers : h[1] = s /\ Finishes(h)
                  \/ Resets]_vars
    /\ [][Resets => \A s \in Signals : stats'[s] = 0]_vars

\* two calls that ran side by side have returned, the counter holds the
\* items of both, and a ClearAll has cleared the trace store
C30_Witness ==
    /\ \A h \in TraceCalls : exp[h] = Returned
    /\ idCounter >= 1
    /\ stats["trace"] = 2
    /\ clr.pc = "metric"

\* ------------------------------------------------------------------ C31
\* the numbers of the items pushed to the store of signal type s
PushedTo(s) == {pushed[s][i] : i \in 1..Len(pushed[s])}

\* the event carries an item of its own type that has been pushed
Stored(ev) == ev.type = ev.item.sig /\ ev.item.n \in PushedTo(ev.type)

\* C31: an Export call has called emitEvent once for each item it has
\* pushed, the one it has just pushed excepted, for which the call comes
\* next; and every event a goroutine carries or a callback was called with
\* has the type of its item, which was pushed to the store of that type
\* before.
C31_EmitAfterPush ==
    /\ \A h \in Handlers :
           exp[h].emitted = IF exp[h].pc = "emit" THEN exp[h].count - 1
                            ELSE exp[h].count
    /\ \A g \in gor : Stored(g.ev)
    /\ \A d \in delivered : Stored(d[2])

\* a callback has been called with the event of a log record that has
\* since been overwritten in the store
C31_Witness ==
    \E d \in delivered :
        /\ callbacks[d[1]] = "returns"
        /\ d[2].type = "log"
        /\ RbLen(stores["log"]) = 1
        /\ GetAll(stores["log"])[1].n # d[2].item.n

\* ------------------------------------------------------------------ C32
\* C32: the callbacks are called in no particular order: while the
\* process runs, any goroutine emitEvent has started can be the next to
\* run, whatever other goroutines are still to run, be they of earlier
\* events or of callbacks registered earlier.
C32_NoDeliveryOrder ==
    ~crashed => \A g \in gor : ENABLED GoRun(g)

\* a callback has been called with the event of the second span of a batch
\* and not yet with that of the first, and the callback registered second
\* has been called with an event the first has not been called with yet
C32_Witness ==
    /\ ~crashed
    /\ \E g \in gor : \E d \in delivered :
           d[1] = g.cb /\ d[2].item.n > g.ev.item.n
    /\ \E g \in gor : \E d \in delivered :
           d[2] = g.ev /\ d[1] > g.cb
    /\ exp[TraceCall].req = <<<<<<1, 2>>>>>>

\* ------------------------------------------------------------------ C33
\* C33: a Start call made while the port is taken returns an error,
\* creates no gRPC server and serves none, and leaves r.listener, r.server
\* and the stores as they were.
C33_StartFailsClean ==
    [][(net'.starts = net.starts + 1 /\ net.port # "free") =>
           /\ net'.err
           /\ net'.listener = net.listener
           /\ net'.server = net.server
           /\ net'.made = net.made
           /\ net'.serving = net.serving
           /\ stores' = stores]_vars

\* the second Start of a running receiver has returned an error, the
\* first server still serving and the trace store holding a span
C33_Witness ==
    /\ net.err
    /\ net.starts = 2
    /\ net.port = "self"
    /\ net.listener = 1
    /\ net.serving = 1
    /\ ~IsEmpty(stores["trace"])

C35_NoForwardAfterStop ==
    [][app'.forwarded # app.forwarded => ~app.stopped]_vars

\* ------------------------------------------------------------------ C36
\* what the store holds after the first k of the pushes h, for each k
Snapshots(h, cap) == {LastN(SubSeq(h, 1, k), cap) : k \in 0..Len(h)}

\* the first n elements of s
FirstN(s, n) == SubSeq(s, 1, Min(n, Len(s)))

\* C36: with Push, PushBatch and Clear running beside it, what GetAll
\* returns is what the store held after the first k pushes since the last
\* Clear, in the order they took effect, for some k; what GetAll has copied
\* so far and what ForEach has handed to fn so far is the beginning of such
\* a snapshot.
C36_ConsistentSnapshot ==
    \A p \in LockProcs :
        /\ (op[p] = "GetAll" /\ pc[p] = "unlock") =>
               res[p] \in Snapshots(hist, Cap(rb))
        /\ (op[p] = "GetAll" /\ pc[p] = "getall_copy") =>
               \E sn \in Snapshots(hist, Cap(rb)) : res[p] = FirstN(sn, idx[p])
        /\ (op[p] = "ForEach" /\ idx[p] > 0) =>
               \E sn \in Snapshots(hist, Cap(rb)) : res[p] = FirstN(sn, idx[p])

\* GetAll returns a full store that has wrapped while ForEach is in the
\* middle of its traversal and a Clear waits for both
C36_Witness ==
    /\ op[<<"r", 1>>] = "GetAll"
    /\ pc[<<"r", 1>>] = "unlock"
    /\ Len(hist) > Cap(rb)
    /\ Cap(rb) >= 2
    /\ Len(res[<<"r", 1>>]) = Cap(rb)
    /\ pc[Prober] = "foreach"
    /\ idx[Prober] = 1
    /\ pc[Clearer] = "lock_wait"

\* ------------------------------------------------------------------ C37
\* no Export call and no ClearAll call is in progress
Quiescent == clr.pc = "idle" /\ \A h \in Handlers : exp[h].pc = "idle"

\* C37: whenever no Export call and no ClearAll call is in progress, each
\* store holds min(received counter of its signal type, capacity) items.
C37_CountersMatchStores ==
    Quiescent =>
        \A s \in Signals : RbLen(stores[s]) = Min(stats[s], Cap(stores[s]))

\* ------------------------------------------------------------------ C38
\* s is the beginning of t
IsPrefix(s, t) == Len(s) <= Len(t) /\ s = SubSeq(t, 1, Len(s))

\* C38: no registration is lost. The callback list is the callbacks of the
\* OnEvent calls that have appended, in the order they did, each once; it
\* holds the callback of every call that has returned, and exactly those
\* when no call is in progress; it only grows; and an emitEvent call in
\* progress works on a beginning of the list and has started the
\* callbacks of that beginning in order, each once.
C38_RegistrationsKept ==
    /\ [](/\ callbacks = [j \in 1..Len(reg.order) |-> RegKind(reg.order[j])]
          /\ \A j, k \in 1..Len(reg.order) :
                 reg.order[j] = reg.order[k] => j = k
          /\ \A i \in Registrars :
                 reg.on[i] = "done" => \E j \in 1..Len(reg.order) : reg.order[j] = i
          /\ (\A i \in Registrars : reg.on[i] \in {"idle", "done"}) =>
                 Len(callbacks) = Cardinality({i \in Registrars : reg.on[i] = "done"})
          /\ IsPrefix(reg.em.list, callbacks)
          /\ reg.em.started = [j \in 1..reg.em.i |-> j]
          /\ reg.em.i <= Len(reg.em.list))
    /\ [][IsPrefix(callbacks, callbacks')]_vars

\* two OnEvent calls have returned, the second while emitEvent was in its
\* loop over the list of one callback it had taken before
C38_Witness ==
    /\ \A i \in 1..2 : reg.on[i] = "done"
    /\ Len(callbacks) >= 2
    /\ reg.em.pc = "loop"
    /\ Len(reg.em.list) = 1
    /\ reg.em.started = <<1>>

\* ------------------------------------------------------------------ C39
\* C39: whatever events the hook has handled, each cache holds at most
\* MAX_BUFFER_SIZE entries.
C39_CacheBounded ==
    \A t \in Signals : Len(hook[t]) <= MaxBufferSize

\* ------------------------------------------------------------------ C40
\* C40: in every reachable state of a RingBuffer of capacity C, head and
\* tail are in 0..C-1 and count in 0..C, head is (tail + count) mod C, the
\* full flag is set exactly when count is C, and tail is 0 while the buffer
\* is not full.
C40_CursorInvariant ==
    /\ rb.head \in 0..(rb.capacity - 1)
    /\ rb.tail \in 0..(rb.capacity - 1)
    /\ rb.count \in 0..rb.capacity
    /\ rb.head = (rb.tail + rb.count) % rb.capacity
    /\ rb.full <=> rb.count = rb.capacity
    /\ ~rb.full => rb.tail = 0

\* a full buffer of capacity 3 that has wrapped, head and tail both at 2,
\* after a PushBatch that followed a Clear
C40_Witness ==
    /\ rb.capacity = 3
    /\ rb.full
    /\ rb.head = 2
    /\ rb.tail = 2
    /\ lastOp.op = "PushBatch"
    /\ nextItem > Len(hist) + 1

====
